---------------------------- MODULE Spec2Model ----------------------------
(***************************************************************************)
(* A model of the VictoriaMetrics metrics package: the Set registry        *)
(* (set.go), the push tasks with their Close (push.go) and the Summary     *)
(* window swap (summary.go).                                               *)
(*                                                                         *)
(* A metric name is a pair <<base, tag>>: base is the identifier (0 is a   *)
(* name validateMetric rejects) and tag is the list of its quantile labels *)
(* read as a number in base 3: 0 is the bare name foo, q the name          *)
(* foo{quantile="q"}, 3 * p + q the name foo{quantile="p",quantile="q"}.   *)
(* Names compare as the strings do.                                        *)
(***************************************************************************)
EXTENDS Integers, Sequences, FiniteSets, TLC

\* ------------------------------------------------------------------ bounds

NumThreads == 2
\* The number of calls started in a run of concurrent callers, and in a run
\* of one caller.
MaxOps == 3
MaxSeqOps == 4
\* Push: the push tasks started, the calls of InitPush* and Close, and the
\* writes to the pushed metrics.
MaxTasks == 2
MaxPushCalls == 3
MaxVal == 1
MaxPushes == 2
\* Histogram: the largest value given to getBucketIdx, in units.
MaxBucketVal == 1100
\* Histogram: the calls started on the histogram of a run.
MaxVmCalls == 4
\* Summary: the summaries made, the values passed to Update, the swaps of
\* a summary, and the number of values a reservoir holds.
MaxSummaries == 2
MaxUpdates == 3
MaxSwaps == 2
ReservoirCap == 2
\* The calls on histograms of a run, and the largest value observed.
MaxHistOps == 4
MaxHistVal == 3
MaxBounds == 2
\* The labels of a name given by its parts, and the lines of a text.
MaxLabels == 2
MaxLines == 2
\* The bytes of a string given to Validate between a start and an end.
MaxRaw == 4
\* Counter: the calls on the counter, the largest argument of Add and Set,
\* and the number of values of c.n (2^64 in the code).
MaxCounterOps == 6
MaxArg == 2
CounterModulus == 8
\* The summaries registered in a run of the goroutines that take the
\* mutexes.
MaxLockSummaries == 2

\* --------------------------------------------------------- names and metrics

Threads == 1..NumThreads

Bases == {1, 2}
Tags == {0, 1, 2, 4, 5, 7, 8}
Names == (Bases \cup {0}) \X Tags

\* The names callers pass: two plain names for concurrent callers; for a
\* single caller a plain name, a name that collides with a quantile
\* sub-metric of it, and an invalid name.
PlainNames == {<<1, 0>>, <<2, 0>>}
SeqNames == {<<1, 0>>, <<1, 1>>, <<0, 0>>}

validateMetric(name) == name[1] # 0

\* foo -> foo{tag}; foo{x} -> foo{x,tag}
addTag(name, q) == <<name[1], 3 * name[2] + q>>

\* The place of a label list among the label lists of one base, as strings
\* compare: foo < foo{p,q} < foo{p} < foo{p',..} for p < p' (',' < '}').
TagRank(tag) ==
    CASE tag = 0 -> 0
      [] tag = 4 -> 1
      [] tag = 5 -> 2
      [] tag = 1 -> 3
      [] tag = 7 -> 4
      [] tag = 8 -> 5
      [] tag = 2 -> 6

NameLess(x, y) == \/ x[1] < y[1]
                  \/ x[1] = y[1] /\ TagRank(x[2]) < TagRank(y[2])

defaultSummaryWindow == 2
defaultSummaryQuantiles == <<1, 2>>

\* The (window, quantiles) pairs callers pass to the *SummaryExt calls.
SummaryParams == {<<defaultSummaryWindow, defaultSummaryQuantiles>>,
                  <<1, defaultSummaryQuantiles>>,
                  <<defaultSummaryWindow, <<1>> >>}
Windows == {p[1] : p \in SummaryParams}

isEqualQuantiles(x, y) ==
    /\ Len(x) = Len(y)
    /\ \A i \in 1..Len(x) : x[i] = y[i]

NilMetric == [id |-> 0, kind |-> "nil", window |-> 0, quantiles |-> <<>>,
              sm |-> 0, idx |-> 0]
NilNM == [name |-> <<0, 0>>, metric |-> NilMetric]

\* &Counter{}, &Gauge{f: f}, &Histogram{}
newScalar(id, kind) == [NilMetric EXCEPT !.id = id, !.kind = kind]

newSummary(id, window, quantiles) ==
    [NilMetric EXCEPT !.id = id, !.kind = "Summary", !.window = window,
                      !.quantiles = quantiles]

newQuantileValue(id, smId, i) ==
    [NilMetric EXCEPT !.id = id, !.kind = "quantileValue", !.sm = smId,
                      !.idx = i]

namedMetric(name, metric) == [name |-> name, metric |-> metric]

RetNone == [tag |-> "none", v |-> 0]
RetPanic == [tag |-> "panic", v |-> 0]
RetMetric(id) == [tag |-> "metric", v |-> id]
RetBool(b) == [tag |-> "bool", v |-> IF b THEN 1 ELSE 0]
RetWritten == [tag |-> "written", v |-> 0]

\* A call: New* / GetOrCreate* of a variant, UnregisterMetric, WritePrometheus.
\* f is the callback of a gauge: NilFunc is nil, 1 a function.
NilFunc == 0
GaugeFuncs == {NilFunc, 1}
NoOp == [call |-> "none", variant |-> "nil", name |-> <<0, 0>>, window |-> 0,
         quantiles |-> <<>>, f |-> 1]
Op(call, variant, name) ==
    [NoOp EXCEPT !.call = call, !.variant = variant, !.name = name]
OpSummary(call, name, p) ==
    [call |-> call, variant |-> "Summary", name |-> name, window |-> p[1],
     quantiles |-> p[2], f |-> 1]
OpGauge(call, name, f) == [Op(call, "Gauge", name) EXCEPT !.f = f]

\* A constructor that takes any f.
fIsNilUnchecked(o) == FALSE

\* if f == nil { panic(...) } of NewGauge and of the slow path of
\* GetOrCreateGauge
fIsNil(o) == o.variant = "Gauge" /\ o.f = NilFunc

Scalars == {"Counter", "Gauge", "Histogram"}
Variants == Scalars \cup {"Summary"}

\* ------------------------------------------------------------ sequences

RECURSIVE RemoveFirst(_, _)
\* append(s[:i], s[i+1:]...) for the first i with P(s[i]); s when there is none.
RemoveFirst(s, e) ==
    IF s = <<>> THEN <<>>
    ELSE IF Head(s) = e THEN Tail(s)
    ELSE <<Head(s)>> \o RemoveFirst(Tail(s), e)

RECURSIVE RemoveName(_, _)
RemoveName(s, name) ==
    IF s = <<>> THEN <<>>
    ELSE IF Head(s).name = name THEN Tail(s)
    ELSE <<Head(s)>> \o RemoveName(Tail(s), name)

RECURSIVE RemoveNames(_, _)
RemoveNames(s, names) ==
    IF names = <<>> THEN s
    ELSE RemoveNames(RemoveName(s, Head(names)), Tail(names))

RECURSIVE InsertSorted(_, _)
InsertSorted(s, nm) ==
    IF s = <<>> THEN <<nm>>
    ELSE IF NameLess(nm.name, Head(s).name) THEN <<nm>> \o s
    ELSE <<Head(s)>> \o InsertSorted(Tail(s), nm)

RECURSIVE SortByName(_)
\* sort.Slice(s.a, lessFunc): the names of s.a are distinct, so the sorted
\* order is unique.
SortByName(s) ==
    IF s = <<>> THEN <<>>
    ELSE InsertSorted(SortByName(Tail(s)), Head(s))

IsSortedByName(s) ==
    \A i \in 1..(Len(s) - 1) : ~NameLess(s[i + 1].name, s[i].name)

NamesOf(s) == {s[i].name : i \in 1..Len(s)}
NameSeq(s) == [i \in 1..Len(s) |-> s[i].name]
Range(s) == {s[i] : i \in 1..Len(s)}

CountName(s, name) == Cardinality({i \in 1..Len(s) : s[i].name = name})

\* ------------------------------------------------------------------ state

VARIABLES
    \* the callers a run has and the arguments they pass
    cfg,
    \* Set (set.go:16-21)
    mu,          \* the holder of s.mu, 0 when it is free
    a,           \* s.a: the list of namedMetric
    m,           \* s.m: name -> namedMetric, NilNM for a missing key
    summaries,   \* s.summaries: the ids of the summaries of the set
    \* the package-level registry of summaries by window
    swapReg,     \* window -> the list of summary ids its swap task visits
    crons,       \* window -> the number of summariesSwapCron goroutines
    nextId,      \* the next fresh object identity
    \* the callers
    pc,          \* each caller's position
    op,          \* the call a caller is in, or has last finished
    nm,          \* the caller's local nm (the namedMetric it found or made)
    qi,          \* the caller's index in the loop over sm.quantiles
    ret,         \* what the caller's last finished call returned
    wi,          \* WritePrometheus: the index of the next entry to marshal
    out,         \* WritePrometheus: the names marshalled by the pass
    \* history
    snap,        \* s.a as a pass found it when it took the lock
    opsDone,     \* the number of calls started
    unregs,      \* the number of UnregisterMetric calls that removed a metric
    actor,       \* the caller that took the last step
    removed,     \* what the caller's UnregisterMetric removed, kept through
                 \* the New* call on the same name that directly follows it
    touched,     \* the ids of the metrics that have been updated
    atStart,     \* the registry as the caller's call found it, in the runs
                 \* that keep it
    \* the scrape
    qcache,      \* the quantileValues of the summaries: the ids of those
                 \* whose cache is NaN and of those whose cache holds
                 \* quantiles; the others still have the zeros of make()
    wl,          \* WritePrometheus: what the pass wrote for each entry
    \* push (push.go)
    pushUrlChanMap, \* pushURL -> the task whose chanMutex is stored, 0: none
    pushUrl,     \* s.pushUrl of each Set, 0 when it is unset
    closeWG,     \* the counter of closeWG
    task,        \* the push tasks: chanMutex, ticker and push goroutine
    nTasks,      \* the number of push tasks started
    val,         \* the value of the pushed metrics (the number of writes)
    crashed,     \* a panic has ended the process
    cl,          \* the callers of InitPush* and Close
    pushCalls,   \* the number of calls of InitPush* and Close started
    pushesTotal, \* pushURL -> metrics_push_total{url=...}
    pushErrorsTotal, \* pushURL -> metrics_push_errors_total{url=...}
    \* Summary (summary.go)
    sums,        \* id -> the Summary: its reservoirs and its cached quantiles
    upd,         \* the values passed to Update: the summary, and the number
                 \* of swaps the summary had seen
    \* PrometheusHistogram (prometheus_histogram.go)
    hist,        \* id -> the histogram: upperBounds, buckets, count, sum
    hmu,         \* id -> the holder of h.mu, 0 when it is free
    hpc,         \* each caller's position in its call on a histogram
    hop,         \* the call on a histogram a caller is in, or has finished
    hloc,        \* the caller's locals: bucketIdx, count, sum,
                 \* cumulativeSum, the loop index i
    hw,          \* the lines the caller's marshalTo has written
    habs,        \* id -> the observations the histogram has accepted since
                 \* its last Reset, its own and the merged ones
    hsnap,       \* habs of the histogram when the caller's marshalTo, or
                 \* hist of both histograms when its Merge, held the locks
    hcalls,      \* the number of calls on histograms started
    \* Counter
    cn,          \* c.n
    got,         \* what the caller's last Get() returned, -1 before it
    net,         \* the net effect of the calls on c, as an integer
    gotNet,      \* the net effect when the caller last called Get()
    incs,        \* the number of Inc calls
    ccalls,      \* the number of calls on c
    \* the mutexes of a Set and of its summaries
    locks,       \* the holder of s.mu, of summariesLock and of each sm.mu
    proc,        \* the goroutines that take them: position, loop index and
                 \* summary
    \* Histogram (histogram.go)
    bk,          \* a value and the bucket index getBucketIdx gives it
    vh,          \* the histogram: buckets, sum, count
    vmu,         \* the holder of the lock of the histogram, 0 when free
    vp,          \* each caller's call on the histogram: position, value,
                 \* what its marshalTo has read, what the call returned
    vg,          \* history: the values accepted since the last Reset, the
                 \* number of Resets that have cleared each field, the
                 \* calls started and the Update calls finished
    \* the functions on names and on exposition text
    txt          \* the arguments of a call and what it returned

setVars == <<mu, a, m, summaries, swapReg, crons, nextId>>
callerVars == <<pc, op, nm, qi, ret, wi, out>>
histVars == <<snap, opsDone, unregs, removed, touched, atStart>>
scrapeVars == <<qcache, wl>>
counterVars == <<cn, got, net, gotNet, incs, ccalls>>
lockVars == <<locks, proc>>
pushVars == <<pushUrlChanMap, pushUrl, closeWG, task, nTasks, val, crashed,
              cl, pushCalls, pushesTotal, pushErrorsTotal>>
smVars == <<sums, upd>>
phVars == <<hist, hmu, hpc, hop, hloc, hw, habs, hsnap, hcalls>>
vmVars == <<bk, vh, vmu, vp, vg>>
vars == <<cfg, txt, vmVars, setVars, callerVars, histVars, actor, pushVars, smVars,
          phVars, scrapeVars, counterVars, lockVars>>

\* What the calls on a Set leave alone: all of them, and all but
\* WritePrometheus.
foreignToScrape == <<cfg, txt, vmVars, pushVars, smVars, phVars, counterVars, lockVars>>
foreignToSet == <<foreignToScrape, scrapeVars>>
\* What the push tasks and the callers of InitPush* and Close leave alone.
foreignToPush == <<cfg, txt, vmVars, setVars, callerVars, histVars, actor, smVars,
                   phVars, scrapeVars, counterVars, lockVars>>
\* What the summaries and their swap tasks leave alone.
foreignToSummary == <<cfg, txt, vmVars, mu, a, m, summaries, callerVars, histVars, actor,
                      pushVars, phVars, scrapeVars, counterVars, lockVars>>
\* What the calls on a PrometheusHistogram leave alone.
foreignToHist == <<cfg, txt, vmVars, setVars, callerVars, histVars, actor, pushVars,
                   smVars, scrapeVars, counterVars, lockVars>>
\* What the calls on a Counter leave alone.
foreignToCounter == <<cfg, txt, vmVars, setVars, callerVars, histVars, actor, pushVars,
                      smVars, phVars, scrapeVars, lockVars>>
\* What the goroutines that take the mutexes leave alone.
foreignToLocks == <<cfg, txt, vmVars, mu, a, m, callerVars, histVars, actor, pushVars,
                    smVars, phVars, scrapeVars, counterVars>>

\* What the calls on a Histogram leave alone.
foreignToVm == <<cfg, txt, setVars, callerVars, histVars, actor, pushVars, smVars,
                 phVars, scrapeVars, counterVars, lockVars>>

SetInitState ==
    /\ mu = 0
    /\ a = <<>>
    /\ m = [n \in Names |-> NilNM]
    /\ summaries = <<>>
    /\ swapReg = [w \in Windows |-> <<>>]
    /\ crons = [w \in Windows |-> 0]
    /\ nextId = 1
    /\ pc = [t \in Threads |-> "idle"]
    /\ op = [t \in Threads |-> NoOp]
    /\ nm = [t \in Threads |-> NilNM]
    /\ qi = [t \in Threads |-> 0]
    /\ ret = [t \in Threads |-> RetNone]
    /\ wi = [t \in Threads |-> 0]
    /\ out = [t \in Threads |-> <<>>]
    /\ snap = [t \in Threads |-> <<>>]
    /\ opsDone = 0
    /\ unregs = 0
    /\ actor = 0
    /\ removed = [t \in Threads |-> NilNM]
    /\ touched = {}
    /\ atStart = [t \in Threads |-> <<>>]
    /\ qcache = [nan |-> {}, val |-> {}]
    /\ wl = [t \in Threads |-> <<>>]

\* The push targets, and the Sets that push; 0 stands for no Set (the
\* package-level InitPush, InitPushExt) and for an unset s.pushUrl.
URLs == {1, 2}
PushSets == {1}
TaskIds == 1..MaxTasks

\* A push task: the chanMutex (closed; lock: a send holds c.m), the ticker
\* goroutine of timeTrigger, the push goroutine (pc, the ok of its last
\* receive, the value in its buffer, the value it delivered with the push
\* it ended with, whether a push of it has failed after the close, the
\* writeMetrics callback it calls).
NoTask == [url |-> 0, closed |-> FALSE, lock |-> FALSE, timer |-> "none",
           pc |-> "none", ok |-> TRUE, buf |-> -1, delivered |-> -1,
           failed |-> FALSE, cb |-> 0]

\* A caller of InitPush* and Close: its position, the task and the key its
\* Close is at, the keys its Range has visited, the tasks its call has
\* closed, the value of the metrics when the call started, the call and
\* what it returned, the writeMetrics callback of its InitPushExt.
NoCaller == [pc |-> "idle", cur |-> 0, key |-> 0, visited |-> {},
             closed |-> {}, val |-> 0, call |-> "none", ret |-> "none",
             cb |-> 0]

PushInitState ==
    /\ pushUrlChanMap = [u \in URLs |-> 0]
    /\ pushUrl = [s \in PushSets |-> 0]
    /\ closeWG = 0
    /\ task = [i \in TaskIds |-> NoTask]
    /\ nTasks = 0
    /\ val = 0
    /\ crashed = FALSE
    /\ cl = [c \in Threads |-> NoCaller]
    /\ pushCalls = 0
    /\ pushesTotal = [u \in URLs |-> 0]
    /\ pushErrorsTotal = [u \in URLs |-> 0]

SummaryInitState ==
    /\ sums = <<>>
    /\ upd = <<>>

\* The upper bounds of the histograms of a run: finite and strictly
\* increasing, so validateBuckets passes and no +Inf bound is dropped.
HistBounds == <<1, 2>>

\* validateBuckets panics unless it is given strictly increasing bounds.
validateBuckets(upperBounds) ==
    /\ Len(upperBounds) > 0
    /\ \A i \in 1..(Len(upperBounds) - 1) : upperBounds[i] < upperBounds[i + 1]

\* math.Inf(+1) among the bounds: it lies above every other bound and
\* every value.
PosInf == 1000

\* The bounds given to a construction: every list of up to MaxBounds
\* bounds, in any order, with +Inf anywhere.
BoundLists ==
    UNION {[1..n -> {1, 2, PosInf}] : n \in 0..MaxBounds}

\* &PrometheusHistogram{upperBounds: ..., buckets: make([]uint64, ...)};
\* given is the list the constructor was called with.
PrometheusHistogram(upperBounds, given) ==
    [upperBounds |-> upperBounds,
     buckets |-> [i \in 1..Len(upperBounds) |-> 0],
     count |-> 0,
     sum |-> 0,
     built |-> TRUE,
     given |-> given]

\* The construction panicked: there is no histogram.
NoHistogram(given) ==
    [PrometheusHistogram(<<>>, given) EXCEPT !.built = FALSE]

\* A constructor that keeps a trailing +Inf among the bounds.
newPrometheusHistogramKeepInf(upperBounds) ==
    IF ~validateBuckets(upperBounds)
    THEN NoHistogram(upperBounds)
    ELSE PrometheusHistogram(upperBounds, upperBounds)

\* validateBuckets first, then the trailing +Inf is cut off.
newPrometheusHistogram(upperBounds) ==
    IF ~validateBuckets(upperBounds)
    THEN NoHistogram(upperBounds)
    ELSE LET last == Len(upperBounds) IN
         IF upperBounds[last] = PosInf
         THEN PrometheusHistogram(SubSeq(upperBounds, 1, last - 1), upperBounds)
         ELSE PrometheusHistogram(upperBounds, upperBounds)

\* The locals of a call on a histogram; bucketIdx 0 stands for -1.
NoLocals == [bucketIdx |-> 0, count |-> 0, sum |-> 0, cumulativeSum |-> 0,
             i |-> 0]
NoHistOp == [call |-> "none", h |-> 0, src |-> 0, v |-> 0, nan |-> FALSE]

\* No observation: how many times each value has been accepted.
NoObservations == [vals |-> [v \in 0..MaxHistVal |-> 0], merged |-> FALSE]

\* The histograms of a run, each constructed from its list of bounds.
HistObjectInitState(bounds) ==
    /\ hist = [h \in cfg.hists |-> newPrometheusHistogram(bounds[h])]
    /\ hmu = [h \in cfg.hists |-> 0]
    /\ hpc = [t \in Threads |-> "idle"]
    /\ hop = [t \in Threads |-> NoHistOp]
    /\ hloc = [t \in Threads |-> NoLocals]
    /\ hw = [t \in Threads |-> <<>>]
    /\ habs = [h \in cfg.hists |-> NoObservations]
    /\ hsnap = [t \in Threads |-> <<>>]
    /\ hcalls = 0

HistInitState == HistObjectInitState([h \in cfg.hists |-> HistBounds])

\* The goroutines of the mutexes: a scrape, a registration of a summary,
\* an update of a summary and the swap task of the default window.
LockProcs == {"WritePrometheus", "GetOrCreateSummaryExt", "Update",
              "summariesSwapCron"}
\* s.mu, summariesLock and the mu of each summary.
LockIds == {<<"s.mu", 0>>, <<"summariesLock", 0>>}
               \cup {<<"sm.mu", s>> : s \in 1..MaxLockSummaries}
NoProc == [pc |-> "idle", i |-> 0, sm |-> 0]

LockInitState ==
    /\ locks = [l \in LockIds |-> "free"]
    /\ proc = [p \in LockProcs |-> NoProc]

\* c := &Counter{}
CounterInitState ==
    /\ cn = 0
    /\ got = [t \in Threads |-> -1]
    /\ net = 0
    /\ gotNet = [t \in Threads |-> 0]
    /\ incs = 0
    /\ ccalls = 0

\* The decades of a Histogram and the number of its buckets: bucket 0 for
\* zero, nine buckets for each of the decades e10Min-1 .. e10Max, of which
\* the first, with the range end 10^e10Min, also takes what lies below, the
\* bucket with the range end 10^(e10Max+1), and the last for what lies
\* above.  The model has two decades of the code's many.
e10Min == -1
e10Max == 0
bucketsCount == 12 + 9 * (e10Max - e10Min)

\* The values passed to a Histogram: a finite value is a whole number of
\* units of 10^(e10Min-1), so that 10 units are 10^e10Min.
VmNaN == [nan |-> TRUE, inf |-> FALSE, v |-> 0]
VmInf == [nan |-> FALSE, inf |-> TRUE, v |-> 0]
VmVal(v) == [nan |-> FALSE, inf |-> FALSE, v |-> v]

\* No value has been given to getBucketIdx.
NoBucket == [x |-> VmVal(0), idx |-> -1]

\* A caller of the Histogram that is in no call: the value of its Update,
\* what its marshalTo has read (the buckets, sum and count, for each the
\* number of Resets that had cleared it, and the values that had been
\* accepted by then), the lines it has written,
\* what the call returned, and whether every Update had finished when the
\* marshalTo began.
NoVmCall == [pc |-> "idle", call |-> "none", x |-> VmVal(0), idx |-> 0,
             read |-> <<>>, lines |-> <<>>, ret |-> "none", quiet |-> FALSE]

\* h := &Histogram{}
VmObjectInitState ==
    /\ vh = [buckets |-> [i \in 0..(bucketsCount - 1) |-> 0],
             sum |-> 0, count |-> 0]
    /\ vmu = 0
    /\ vp = [t \in Threads |-> NoVmCall]
    /\ vg = [accepted |-> <<>>, resets |-> [buckets |-> 0, sum |-> 0,
                                            count |-> 0],
             calls |-> 0, updates |-> 0, finished |-> 0]

VmHistInitState ==
    /\ bk = NoBucket
    /\ VmObjectInitState

\* No call on a name or on a text.
NoText == [call |-> "none"]

TextInitState == txt = NoText

\* ------------------------------------------------------- Set: registration

\* registerMetric that binds the name in the map and forgets the list.
registerMetricNoAppend(mm, aa, name, x) ==
    IF ~validateMetric(name)
    THEN [m |-> mm, a |-> aa, panic |-> TRUE]
    ELSE IF mm[name] # NilNM
    THEN [m |-> mm, a |-> aa, panic |-> TRUE]
    ELSE [m |-> [mm EXCEPT ![name] = namedMetric(name, x)],
          a |-> aa,
          panic |-> FALSE]

\* registerMetric without the check for a registered name: the new metric
\* replaces the old one.
registerMetricOverwrite(mm, aa, name, x) ==
    IF ~validateMetric(name)
    THEN [m |-> mm, a |-> aa, panic |-> TRUE]
    ELSE [m |-> [mm EXCEPT ![name] = namedMetric(name, x)],
          a |-> Append(aa, namedMetric(name, x)),
          panic |-> FALSE]

\* Set.registerMetric: the map and the list after the call, and whether it
\* panicked (an invalid name, or a name that is already registered).
registerMetric(mm, aa, name, x) ==
    IF ~validateMetric(name) \/ mm[name] # NilNM
    THEN [m |-> mm, a |-> aa, panic |-> TRUE]
    ELSE [m |-> [mm EXCEPT ![name] = namedMetric(name, x)],
          a |-> Append(aa, namedMetric(name, x)),
          panic |-> FALSE]

\* The locked insertion without the second look-up.
getOrCreateLockedNoRecheck(mm, aa, nmNew) ==
    [m |-> [mm EXCEPT ![nmNew.name] = nmNew], a |-> Append(aa, nmNew),
     nm |-> nmNew, created |-> TRUE]

\* The second, locked look-up of a GetOrCreate* call: nm = s.m[name], and
\* the insertion of nmNew when there is none.
getOrCreateLocked(mm, aa, nmNew) ==
    IF mm[nmNew.name] = NilNM
    THEN [m |-> [mm EXCEPT ![nmNew.name] = nmNew], a |-> Append(aa, nmNew),
          nm |-> nmNew, created |-> TRUE]
    ELSE [m |-> mm, a |-> aa, nm |-> mm[nmNew.name], created |-> FALSE]

\* The final checks without the check of the window.
getOrCreateResultNoWindow(o, found) ==
    IF found.metric.kind # o.variant THEN RetPanic
    ELSE IF o.variant = "Summary"
            /\ ~isEqualQuantiles(found.metric.quantiles, o.quantiles) THEN RetPanic
    ELSE RetMetric(found.metric.id)

\* The checks that end a GetOrCreate* call: the type assertion and, for a
\* summary, the window and the quantiles.
getOrCreateResult(o, found) ==
    IF found.metric.kind # o.variant THEN RetPanic
    ELSE IF o.variant = "Summary" /\ found.metric.window # o.window THEN RetPanic
    ELSE IF o.variant = "Summary"
            /\ ~isEqualQuantiles(found.metric.quantiles, o.quantiles) THEN RetPanic
    ELSE RetMetric(found.metric.id)

\* registerSummary(sm): sm joins the summaries swapped with its window.
registerSummary(reg, sm) == [reg EXCEPT ![sm.window] = Append(@, sm.id)]

\* registerSummary: go summariesSwapCron(window) when the list of the window
\* has one summary after the append.
startCron(cr, reg, sm) ==
    IF Len(registerSummary(reg, sm)[sm.window]) = 1
    THEN [cr EXCEPT ![sm.window] = @ + 1]
    ELSE cr

\* unregisterSummary(sm)
unregisterSummary(reg, sm) == [reg EXCEPT ![sm.window] = RemoveFirst(@, sm.id)]

\* A New* call of a scalar, or of a summary with the quantiles of x, on the
\* name the caller has just unregistered x from.
ReRegisters(t, o) ==
    /\ o.call = "New"
    /\ op[t].call = "UnregisterMetric"
    /\ op[t].name = o.name
    /\ removed[t] # NilNM
    /\ \/ o.variant \in Scalars
       \/ /\ removed[t].metric.kind = "Summary"
          /\ isEqualQuantiles(o.quantiles, removed[t].metric.quantiles)

\* s.m, s.a, s.summaries and the package-level registry of the swap tasks.
Registry == <<m, a, summaries, swapReg>>

\* A caller starts the call o.
Begin(t, o) ==
    /\ pc[t] = "idle"
    /\ opsDone < cfg.maxOps
    /\ opsDone' = opsDone + 1
    /\ op' = [op EXCEPT ![t] = o]
    /\ actor' = t
    /\ atStart' = IF cfg.history THEN [atStart EXCEPT ![t] = Registry]
                 ELSE atStart
    /\ \/ o.call = "UnregisterMetric"
       \/ removed' = IF ReRegisters(t, o) THEN removed
                     ELSE [removed EXCEPT ![t] = NilNM]

\* A caller goes on with its call.
Step(t, p) ==
    /\ pc[t] = p
    /\ actor' = t
    /\ UNCHANGED atStart

\* The call goes on at position p with the locals x and i.
Goto(t, p, x, i) ==
    /\ pc' = [pc EXCEPT ![t] = p]
    /\ nm' = [nm EXCEPT ![t] = x]
    /\ qi' = [qi EXCEPT ![t] = i]
    /\ ret' = IF p = "idle" THEN ret ELSE [ret EXCEPT ![t] = RetNone]

\* The call returns r (or panics: r = RetPanic); its locals die.
Finish(t, r) ==
    /\ pc' = [pc EXCEPT ![t] = "idle"]
    /\ nm' = [nm EXCEPT ![t] = NilNM]
    /\ qi' = [qi EXCEPT ![t] = 0]
    /\ ret' = [ret EXCEPT ![t] = r]

\* NewCounter, NewGauge, NewHistogram
NewScalar(t, kind, name) ==
    /\ Begin(t, Op("New", kind, name))
    /\ mu = 0
    /\ LET r == registerMetric(m, a, name, newScalar(nextId, kind)) IN
        /\ m' = r.m
        /\ a' = r.a
        /\ nextId' = IF r.panic THEN nextId ELSE nextId + 1
        /\ Finish(t, IF r.panic THEN RetPanic ELSE RetMetric(nextId))
    /\ UNCHANGED <<mu, summaries, swapReg, crons, wi, out, snap, unregs, touched>>
    /\ UNCHANGED foreignToSet

\* NewGauge: f is checked before the gauge is built and registered.
NewGauge(t, name, f) ==
    /\ Begin(t, OpGauge("New", name, f))
    /\ IF fIsNil(OpGauge("New", name, f))
       THEN /\ Finish(t, RetPanic)
            /\ UNCHANGED <<a, m, nextId>>
       ELSE /\ mu = 0
            /\ LET r == registerMetric(m, a, name, newScalar(nextId, "Gauge")) IN
                /\ m' = r.m
                /\ a' = r.a
                /\ nextId' = IF r.panic THEN nextId ELSE nextId + 1
                /\ Finish(t, IF r.panic THEN RetPanic ELSE RetMetric(nextId))
    /\ UNCHANGED <<mu, summaries, swapReg, crons, wi, out, snap, unregs, touched>>
    /\ UNCHANGED foreignToSet

\* NewSummaryExt, to the return of its registerMetric(name, sm)
NewSummaryExt(t, name, p) ==
    /\ Begin(t, OpSummary("New", name, p))
    /\ mu = 0
    /\ LET sm == newSummary(nextId, p[1], p[2])
           r == registerMetric(m, a, name, sm) IN
        /\ m' = r.m
        /\ a' = r.a
        /\ nextId' = IF r.panic THEN nextId ELSE nextId + 1
        /\ IF r.panic
           THEN Finish(t, RetPanic)
           ELSE Goto(t, "ns_registerSummary", namedMetric(name, sm), 0)
    /\ UNCHANGED <<mu, summaries, swapReg, crons, wi, out, snap, unregs, touched>>
    /\ UNCHANGED foreignToSet

\* NewSummaryExt: registerSummary(sm)
NewSummaryExt_registerSummary(t) ==
    /\ Step(t, "ns_registerSummary")
    /\ swapReg' = registerSummary(swapReg, nm[t].metric)
    /\ crons' = startCron(crons, swapReg, nm[t].metric)
    /\ Goto(t, "ns_quantiles", nm[t], 1)
    /\ UNCHANGED <<mu, a, m, summaries, nextId, op, wi, out, histVars>>
    /\ UNCHANGED foreignToSet

\* One round of the loop of Set.registerSummaryQuantiles: registerMetric of
\* the quantileValue of sm.quantiles[qi].  after is where the caller goes
\* after the last round; "idle" is the end of GetOrCreateSummaryExt.
registerSummaryQuantiles(t, here, after) ==
    /\ Step(t, here)
    /\ mu = 0
    /\ LET sm == nm[t].metric
           qv == newQuantileValue(nextId, sm.id, qi[t])
           r == registerMetric(m, a, addTag(nm[t].name, sm.quantiles[qi[t]]), qv)
       IN
        /\ m' = r.m
        /\ a' = r.a
        /\ nextId' = IF r.panic THEN nextId ELSE nextId + 1
        /\ IF r.panic
           THEN Finish(t, RetPanic)
           ELSE IF qi[t] < Len(sm.quantiles)
           THEN Goto(t, here, nm[t], qi[t] + 1)
           ELSE IF after = "idle"
           THEN Finish(t, getOrCreateResult(op[t], nm[t]))
           ELSE Goto(t, after, nm[t], 0)
    /\ UNCHANGED <<mu, summaries, swapReg, crons, op, wi, out, histVars>>
    /\ UNCHANGED foreignToSet

NewSummaryExt_quantiles(t) == registerSummaryQuantiles(t, "ns_quantiles", "ns_append")

\* NewSummaryExt: s.summaries = append(s.summaries, sm), and the return
NewSummaryExt_append(t) ==
    /\ Step(t, "ns_append")
    /\ mu = 0
    /\ summaries' = Append(summaries, nm[t].metric.id)
    /\ Finish(t, RetMetric(nm[t].metric.id))
    /\ UNCHANGED <<mu, a, m, swapReg, crons, nextId, op, wi, out, histVars>>
    /\ UNCHANGED foreignToSet

\* ------------------------------------------------------ Set: GetOrCreate*

\* GetOrCreateCounter, GetOrCreateGauge, GetOrCreateHistogram and
\* GetOrCreateSummaryExt: the first look-up, nm := s.m[name] under the lock.
\* A caller that finds the name goes on to the final checks.
GetOrCreate_lookup(t, o) ==
    /\ Begin(t, o)
    /\ mu = 0
    /\ IF m[o.name] # NilNM
       THEN Finish(t, getOrCreateResult(o, m[o.name]))
       ELSE Goto(t, "goc_slow", NilNM, 0)
    /\ UNCHANGED <<setVars, wi, out, snap, unregs, touched>>
    /\ UNCHANGED foreignToSet

\* The slow path of the scalar variants: the check of f (GetOrCreateGauge),
\* validateMetric, then the locked second look-up and insertion, then the
\* type assertion.
GetOrCreate_slow(t) ==
    /\ Step(t, "goc_slow")
    /\ op[t].variant \in Scalars
    /\ fIsNil(op[t]) \/ ~validateMetric(op[t].name) \/ mu = 0
    /\ IF fIsNil(op[t]) \/ ~validateMetric(op[t].name)
       THEN /\ Finish(t, RetPanic)
            /\ UNCHANGED <<a, m, nextId>>
       ELSE LET nmNew == namedMetric(op[t].name, newScalar(nextId, op[t].variant))
                r == getOrCreateLocked(m, a, nmNew) IN
            /\ m' = r.m
            /\ a' = r.a
            /\ nextId' = IF r.created THEN nextId + 1 ELSE nextId
            /\ Finish(t, getOrCreateResult(op[t], r.nm))
    /\ UNCHANGED <<mu, summaries, swapReg, crons, op, wi, out, histVars>>
    /\ UNCHANGED foreignToSet

\* The slow path of GetOrCreateSummaryExt, to the s.mu.Unlock() of line 269:
\* the summary is inserted and registered for its window when the name is
\* still missing, and appended to s.summaries in either case.
GetOrCreateSummaryExt_slow(t) ==
    /\ Step(t, "goc_slow")
    /\ op[t].variant = "Summary"
    /\ mu = 0
    /\ IF ~validateMetric(op[t].name)
       THEN /\ Finish(t, RetPanic)
            /\ UNCHANGED <<a, m, nextId, summaries, swapReg, crons>>
       ELSE LET sm == newSummary(nextId, op[t].window, op[t].quantiles)
                r == getOrCreateLocked(m, a, namedMetric(op[t].name, sm)) IN
            /\ m' = r.m
            /\ a' = r.a
            /\ nextId' = nextId + 1
            /\ swapReg' = IF r.created THEN registerSummary(swapReg, sm) ELSE swapReg
            /\ crons' = IF r.created THEN startCron(crons, swapReg, sm) ELSE crons
            /\ summaries' = Append(summaries, sm.id)
            /\ IF r.created
               THEN Goto(t, "gocs_quantiles", r.nm, 1)
               ELSE Finish(t, getOrCreateResult(op[t], r.nm))
    /\ UNCHANGED <<mu, op, wi, out, histVars>>
    /\ UNCHANGED foreignToSet

\* GetOrCreateSummaryExt: s.registerSummaryQuantiles(name, sm), run after
\* the lock has been released, then the final checks.
GetOrCreateSummaryExt_quantiles(t) == registerSummaryQuantiles(t, "gocs_quantiles", "idle")

\* ---------------------------------------------------- Set: UnregisterMetric

quantileNames(x) == [i \in 1..Len(x.metric.quantiles) |->
                        addTag(x.name, x.metric.quantiles[i])]

\* UnregisterMetric that forgets the quantile sub-metrics of a summary.
unregisterMetricKeepQuantiles(mm, aa, sms, reg, name) ==
    LET x == mm[name] IN
    IF x = NilNM
    THEN [m |-> mm, a |-> aa, summaries |-> sms, swapReg |-> reg, ok |-> FALSE]
    ELSE [m |-> [mm EXCEPT ![name] = NilNM],
          a |-> RemoveName(aa, name),
          summaries |-> IF x.metric.kind = "Summary"
                        THEN RemoveFirst(sms, x.metric.id) ELSE sms,
          swapReg |-> IF x.metric.kind = "Summary"
                      THEN unregisterSummary(reg, x.metric) ELSE reg,
          ok |-> TRUE]

\* Set.UnregisterMetric: false for a missing name; else the name leaves
\* the map and the list and, for a summary, so do its quantile sub-metrics,
\* the summary leaves s.summaries and its window's swap list.
unregisterMetric(mm, aa, sms, reg, name) ==
    LET x == mm[name]
        gone == {name} \cup Range(quantileNames(x)) IN
    IF x = NilNM
    THEN [m |-> mm, a |-> aa, summaries |-> sms, swapReg |-> reg, ok |-> FALSE]
    ELSE [m |-> [n \in Names |-> IF n \in gone THEN NilNM ELSE mm[n]],
          a |-> RemoveNames(aa, <<name>> \o quantileNames(x)),
          summaries |-> IF x.metric.kind = "Summary"
                        THEN RemoveFirst(sms, x.metric.id) ELSE sms,
          swapReg |-> IF x.metric.kind = "Summary"
                      THEN unregisterSummary(reg, x.metric) ELSE reg,
          ok |-> TRUE]

UnregisterMetric(t, name) ==
    /\ Begin(t, Op("UnregisterMetric", "nil", name))
    /\ mu = 0
    /\ LET r == unregisterMetric(m, a, summaries, swapReg, name) IN
        /\ m' = r.m
        /\ a' = r.a
        /\ summaries' = r.summaries
        /\ swapReg' = r.swapReg
        /\ UNCHANGED crons
        /\ unregs' = IF r.ok THEN unregs + 1 ELSE unregs
        /\ removed' = [removed EXCEPT ![t] = m[name]]
        /\ Finish(t, RetBool(r.ok))
    /\ UNCHANGED <<mu, nextId, wi, out, snap, touched>>
    /\ UNCHANGED foreignToSet

\* ---------------------------------------------------- Set: WritePrometheus

\* A pass that does not sort.
sortListSkipped(aa) == aa

\* sort.SliceIsSorted / sort.Slice of s.a at the start of a pass
sortList(aa) == IF IsSortedByName(aa) THEN aa ELSE SortByName(aa)

\* Summary.updateQuantiles of the summaries ids, of which those in upds
\* have been updated: the quantiles of an empty reservoir are NaN.
updateQuantilesOf(cache, ids, upds) ==
    [nan |-> (cache.nan \ ids) \cup (ids \ upds),
     val |-> (cache.val \ ids) \cup (ids \cap upds)]

\* quantileValue.marshalTo: a line unless the cached value is NaN.
quantileLines(cache, id) == IF id \in cache.nan THEN 0 ELSE 1

\* The number of lines marshalTo of the metric writes. A histogram with no
\* observation writes nothing; a Summary only refreshes its cache.
marshalTo(metric, cache, upds) ==
    CASE metric.kind \in {"Counter", "Gauge"} -> 1
      [] metric.kind = "Histogram" ->
             IF metric.id \in upds THEN Len(HistBounds) + 3 ELSE 0
      [] metric.kind = "Summary" -> 0
      [] metric.kind = "quantileValue" -> quantileLines(cache, metric.sm)

\* What a pass records for an entry: whether its metric (for a quantile,
\* its summary) held no observation, and the number of lines written.
Written(nmx, cache, upds) ==
    [name |-> nmx.name,
     kind |-> nmx.metric.kind,
     empty |-> (IF nmx.metric.kind = "quantileValue" THEN nmx.metric.sm
                ELSE nmx.metric.id) \notin upds,
     n |-> marshalTo(nmx.metric, cache, upds)]

\* strings.Split(prefix, "{")[0]: the name without its labels.
getMetricFamily(name) == name[1]

\* A pass that writes the metadata block before every entry that writes
\* lines.
writeMetadataPerEntry(written, e) ==
    [name |-> e.name, kind |-> e.kind, empty |-> e.empty, n |-> e.n,
     meta |-> cfg.metadata /\ e.n > 0]

\* The # HELP and # TYPE lines of a pass with metadata enabled: the entry e
\* gets them before its lines when it writes lines and no entry written
\* earlier in the pass has put lines under the same base name.
writeMetadataIfNeeded(written, e) ==
    [name |-> e.name, kind |-> e.kind, empty |-> e.empty, n |-> e.n,
     meta |-> /\ cfg.metadata
              /\ e.n > 0
              /\ \A i \in 1..Len(written) :
                    written[i].n > 0 =>
                        getMetricFamily(written[i].name) # getMetricFamily(e.name)]

\* s.mu.Lock(), updateQuantiles of s.summaries, and the sort.
WritePrometheus_lock(t) ==
    /\ Begin(t, Op("WritePrometheus", "nil", <<0, 0>>))
    /\ mu = 0
    /\ mu' = t
    /\ qcache' = updateQuantilesOf(qcache, Range(summaries), touched)
    /\ a' = sortList(a)
    /\ wi' = [wi EXCEPT ![t] = 1]
    /\ out' = [out EXCEPT ![t] = <<>>]
    /\ wl' = [wl EXCEPT ![t] = <<>>]
    /\ snap' = [snap EXCEPT ![t] = a]
    /\ Goto(t, "wp_marshal", NilNM, 0)
    /\ UNCHANGED <<m, summaries, swapReg, crons, nextId, unregs, touched>>
    /\ UNCHANGED foreignToScrape

\* One round of the loop over s.a: nm.metric.marshalTo(nm.name, w)
WritePrometheus_marshal(t) ==
    LET e == a[wi[t]] IN
    /\ Step(t, "wp_marshal")
    /\ wi[t] <= Len(a)
    /\ out' = [out EXCEPT ![t] = Append(@, e.name)]
    /\ wl' = [wl EXCEPT ![t] =
                 Append(@, writeMetadataIfNeeded(@, Written(e, qcache, touched)))]
    /\ qcache' = IF e.metric.kind = "Summary"
                 THEN updateQuantilesOf(qcache, {e.metric.id}, touched)
                 ELSE qcache
    /\ wi' = [wi EXCEPT ![t] = @ + 1]
    /\ UNCHANGED <<setVars, pc, op, nm, qi, ret, histVars>>
    /\ UNCHANGED foreignToScrape

\* A round of the loop at a gauge whose callback panics: the panic leaves
\* WritePrometheus before s.mu.Unlock(), which is not deferred.
WritePrometheus_panic(t) ==
    /\ cfg.panics
    /\ Step(t, "wp_marshal")
    /\ wi[t] <= Len(a)
    /\ a[wi[t]].metric.kind = "Gauge"
    /\ wi' = [wi EXCEPT ![t] = 0]
    /\ out' = [out EXCEPT ![t] = <<>>]
    /\ Finish(t, RetPanic)
    /\ UNCHANGED <<setVars, op, histVars, scrapeVars>>
    /\ UNCHANGED foreignToScrape

\* The end of the loop: s.mu.Unlock(), and the return
WritePrometheus_unlock(t) ==
    /\ Step(t, "wp_marshal")
    /\ wi[t] > Len(a)
    /\ mu' = 0
    /\ wi' = [wi EXCEPT ![t] = 0]
    /\ out' = [out EXCEPT ![t] = <<>>]
    /\ wl' = [wl EXCEPT ![t] = <<>>]
    /\ snap' = [snap EXCEPT ![t] = <<>>]
    /\ Finish(t, RetWritten)
    /\ UNCHANGED <<a, m, summaries, swapReg, crons, nextId, op, opsDone, unregs, removed, touched, qcache>>
    /\ UNCHANGED foreignToScrape

\* ------------------------------------------------------- metric updates

\* Counter.Inc, Histogram.Update or Summary.Update on the metric the caller's
\* last call returned: the metric is no longer zero.
Update(t) ==
    /\ ret[t].tag = "metric"
    /\ op[t].variant # "Gauge"
    /\ Begin(t, [op[t] EXCEPT !.call = "Update"])
    /\ touched' = touched \cup {ret[t].v}
    /\ UNCHANGED <<setVars, pc, nm, qi, ret, wi, out, snap, unregs>>
    /\ UNCHANGED foreignToSet

\* ------------------------------------------------------------ Set: the spec

NewNext(t) ==
    \/ \E k \in cfg.scalars, n \in cfg.names : NewScalar(t, k, n)
    \/ \E n \in cfg.names, p \in cfg.params : NewSummaryExt(t, n, p)
    \/ NewSummaryExt_registerSummary(t)
    \/ NewSummaryExt_quantiles(t)
    \/ NewSummaryExt_append(t)

GetOrCreateNext(t) ==
    \/ \E k \in cfg.scalars, n \in cfg.names :
           GetOrCreate_lookup(t, Op("GetOrCreate", k, n))
    \/ \E n \in cfg.names, p \in cfg.params :
           GetOrCreate_lookup(t, OpSummary("GetOrCreate", n, p))
    \/ GetOrCreate_slow(t)
    \/ GetOrCreateSummaryExt_slow(t)
    \/ GetOrCreateSummaryExt_quantiles(t)

UnregisterNext(t) == \E n \in cfg.names : UnregisterMetric(t, n)

WritePrometheusNext(t) ==
    \/ WritePrometheus_lock(t)
    \/ WritePrometheus_marshal(t)
    \/ WritePrometheus_unlock(t)

SetNext ==
    \E t \in cfg.threads :
        \/ NewNext(t)
        \/ GetOrCreateNext(t)
        \/ UnregisterNext(t)
        \/ WritePrometheusNext(t)

\* Concurrent callers of one Set.
SetInit ==
    /\ cfg = [threads |-> {1, 2}, names |-> PlainNames,
              scalars |-> {"Counter", "Gauge"},
              params |-> {<<defaultSummaryWindow, defaultSummaryQuantiles>>},
              maxOps |-> MaxOps, hists |-> {}, hvals |-> {},
              panics |-> FALSE, counterOps |-> {},
              callbacks |-> {1}, counters |-> FALSE,
              vmcalls |-> {}, vmvals |-> {},
              history |-> FALSE, metadata |-> FALSE]
    /\ SetInitState
    /\ PushInitState
    /\ SummaryInitState
    /\ HistInitState
    /\ CounterInitState
    /\ LockInitState
    /\ TextInitState
    /\ VmHistInitState

SetSpec == SetInit /\ [][SetNext]_vars

\* One caller of one Set, with every argument, who also updates the metrics
\* it gets.
SeqInit ==
    /\ cfg = [threads |-> {1}, names |-> SeqNames, scalars |-> Scalars,
              params |-> SummaryParams, maxOps |-> MaxSeqOps, hists |-> {}, hvals |-> {},
              panics |-> FALSE, counterOps |-> {},
              callbacks |-> {1}, counters |-> FALSE,
              vmcalls |-> {}, vmvals |-> {},
              history |-> FALSE, metadata |-> FALSE]
    /\ SetInitState
    /\ PushInitState
    /\ SummaryInitState
    /\ HistInitState
    /\ CounterInitState
    /\ LockInitState
    /\ TextInitState
    /\ VmHistInitState

SeqNext == SetNext \/ \E t \in cfg.threads : Update(t)

SeqSpec == SeqInit /\ [][SeqNext]_vars

\* Concurrent callers that register, update and scrape, and never
\* unregister; the callback of a gauge may panic. One name has a label, so
\* the names of its quantiles sort before it.
ScrapeInit ==
    /\ cfg = [threads |-> Threads, names |-> {<<1, 0>>, <<1, 1>>},
              scalars |-> {"Gauge", "Histogram"},
              params |-> {<<defaultSummaryWindow, defaultSummaryQuantiles>>},
              maxOps |-> MaxOps, hists |-> {}, hvals |-> {},
              panics |-> TRUE, counterOps |-> {},
              callbacks |-> {1}, counters |-> FALSE,
              vmcalls |-> {}, vmvals |-> {},
              history |-> FALSE, metadata |-> FALSE]
    /\ SetInitState
    /\ PushInitState
    /\ SummaryInitState
    /\ HistInitState
    /\ CounterInitState
    /\ LockInitState
    /\ TextInitState
    /\ VmHistInitState

ScrapeNext ==
    \E t \in cfg.threads :
        \/ NewNext(t)
        \/ GetOrCreateNext(t)
        \/ WritePrometheusNext(t)
        \/ WritePrometheus_panic(t)
        \/ Update(t)

ScrapeSpec == ScrapeInit /\ [][ScrapeNext]_vars

\* Concurrent callers that only get-or-create and unregister, each name
\* always under one variant (TestRegisterUnregister): <<1, 0>> is a summary,
\* <<2, 0>> a counter.
RegUnregInit ==
    /\ cfg = [threads |-> Threads, names |-> PlainNames,
              scalars |-> {"Counter"},
              params |-> {<<defaultSummaryWindow, defaultSummaryQuantiles>>},
              maxOps |-> MaxOps, hists |-> {}, hvals |-> {},
              panics |-> FALSE, counterOps |-> {},
              callbacks |-> {1}, counters |-> FALSE,
              vmcalls |-> {}, vmvals |-> {},
              history |-> FALSE, metadata |-> FALSE]
    /\ SetInitState
    /\ PushInitState
    /\ SummaryInitState
    /\ HistInitState
    /\ CounterInitState
    /\ LockInitState
    /\ TextInitState
    /\ VmHistInitState

RegUnregNext ==
    \E t \in cfg.threads :
        \/ GetOrCreate_lookup(t, Op("GetOrCreate", "Counter", <<2, 0>>))
        \/ \E p \in cfg.params :
               GetOrCreate_lookup(t, OpSummary("GetOrCreate", <<1, 0>>, p))
        \/ GetOrCreate_slow(t)
        \/ GetOrCreateSummaryExt_slow(t)
        \/ GetOrCreateSummaryExt_quantiles(t)
        \/ UnregisterNext(t)

RegUnregSpec == RegUnregInit /\ [][RegUnregNext]_vars

\* Concurrent callers that construct gauges, with a callback or with nil,
\* get-or-create them and unregister them.
GaugeInit ==
    /\ cfg = [threads |-> Threads, names |-> PlainNames,
              scalars |-> {"Gauge"},
              params |-> {<<defaultSummaryWindow, defaultSummaryQuantiles>>},
              maxOps |-> MaxOps, hists |-> {}, hvals |-> {},
              panics |-> FALSE, counterOps |-> {},
              callbacks |-> {1}, counters |-> FALSE,
              vmcalls |-> {}, vmvals |-> {},
              history |-> FALSE, metadata |-> FALSE]
    /\ SetInitState
    /\ PushInitState
    /\ SummaryInitState
    /\ HistInitState
    /\ CounterInitState
    /\ LockInitState
    /\ TextInitState
    /\ VmHistInitState

GaugeNext ==
    \E t \in cfg.threads :
        \/ \E n \in cfg.names, f \in GaugeFuncs : NewGauge(t, n, f)
        \/ \E n \in cfg.names, f \in GaugeFuncs :
               GetOrCreate_lookup(t, OpGauge("GetOrCreate", n, f))
        \/ GetOrCreate_slow(t)
        \/ UnregisterNext(t)

GaugeSpec == GaugeInit /\ [][GaugeNext]_vars

\* One caller registers gauges, histograms and summaries, some under the
\* same base name with different labels, updates them and writes the Set
\* with metadata enabled.
MetaInit ==
    /\ cfg = [threads |-> {1}, names |-> {<<1, 0>>, <<1, 1>>, <<2, 0>>},
              scalars |-> {"Gauge", "Histogram"},
              params |-> {<<defaultSummaryWindow, defaultSummaryQuantiles>>},
              maxOps |-> MaxSeqOps, hists |-> {}, hvals |-> {},
              panics |-> FALSE, counterOps |-> {},
              callbacks |-> {1}, counters |-> FALSE,
              vmcalls |-> {}, vmvals |-> {},
              history |-> FALSE, metadata |-> TRUE]
    /\ SetInitState
    /\ PushInitState
    /\ SummaryInitState
    /\ HistInitState
    /\ CounterInitState
    /\ LockInitState
    /\ TextInitState
    /\ VmHistInitState

MetaNext ==
    \E t \in cfg.threads :
        \/ NewNext(t)
        \/ WritePrometheusNext(t)
        \/ Update(t)

MetaSpec == MetaInit /\ [][MetaNext]_vars

\* One caller of one Set who registers with every argument; the registry
\* is kept as each call found it.
PanicInit ==
    /\ cfg = [threads |-> {1}, names |-> SeqNames, scalars |-> Scalars,
              params |-> SummaryParams, maxOps |-> MaxSeqOps, hists |-> {}, hvals |-> {},
              panics |-> FALSE, counterOps |-> {},
              callbacks |-> {1}, counters |-> FALSE,
              vmcalls |-> {}, vmvals |-> {},
              history |-> TRUE, metadata |-> FALSE]
    /\ SetInitState
    /\ PushInitState
    /\ SummaryInitState
    /\ HistInitState
    /\ CounterInitState
    /\ LockInitState
    /\ TextInitState
    /\ VmHistInitState

PanicNext == \E t \in cfg.threads : NewNext(t) \/ GetOrCreateNext(t)

PanicSpec == PanicInit /\ [][PanicNext]_vars

\* ------------------------------------------------------------------ push

\* A caller starts a call of InitPush* or Close.
PushBegin(c, call) ==
    /\ ~crashed
    /\ c \in cfg.threads
    /\ cl[c].pc = "idle"
    /\ pushCalls < MaxPushCalls
    /\ pushCalls' = pushCalls + 1

\* Set.InitPush (s # 0: s.pushUrl is set before anything is checked) and
\* InitPush, InitPushExt (s = 0), up to pushUrlChanMap.Load.  f: the
\* writeMetrics callback the call passes on to InitPushExt.  valid: the
\* interval, the labels and the URL pass the checks; a failed check returns
\* an error and the deferred function deletes the key of pushURL.  A call
\* that finds the key returns nil; one that does not goes on to Store.
InitPushExt(c, s, u, f, valid) ==
    /\ PushBegin(c, "InitPush")
    /\ pushUrl' = IF s = 0 THEN pushUrl ELSE [pushUrl EXCEPT ![s] = u]
    /\ IF ~valid
       THEN /\ pushUrlChanMap' = [pushUrlChanMap EXCEPT ![u] = 0]
            /\ cl' = [cl EXCEPT ![c] = [NoCaller EXCEPT !.call = "InitPush",
                                                        !.ret = "error",
                                                        !.cb = f]]
       ELSE IF pushUrlChanMap[u] # 0
       THEN /\ cl' = [cl EXCEPT ![c] = [NoCaller EXCEPT !.call = "InitPush",
                                                        !.ret = "nil",
                                                        !.cb = f]]
            /\ UNCHANGED pushUrlChanMap
       ELSE /\ nTasks + Cardinality({d \in Threads : cl[d].pc = "ip_store"})
                   < MaxTasks
            /\ cl' = [cl EXCEPT ![c] = [NoCaller EXCEPT !.call = "InitPush",
                                                        !.pc = "ip_store",
                                                        !.key = u,
                                                        !.cb = f]]
            /\ UNCHANGED pushUrlChanMap
    /\ UNCHANGED <<closeWG, task, nTasks, val, crashed>>
    /\ UNCHANGED <<pushesTotal, pushErrorsTotal>>
    /\ UNCHANGED foreignToPush

\* pushUrlChanMap.Store(pushURL, cm): the chanMutex replaces the one the
\* key may have got since the Load.
Store(map, u, i) == [map EXCEPT ![u] = i]

\* InitPushExt from pushUrlChanMap.Store on: the chanMutex of the call is
\* stored, timeTrigger starts its ticker goroutine and the push goroutine
\* starts.
InitPushExt_store(c) ==
    /\ ~crashed
    /\ cl[c].pc = "ip_store"
    /\ nTasks' = nTasks + 1
    /\ pushUrlChanMap' = Store(pushUrlChanMap, cl[c].key, nTasks + 1)
    /\ task' = [task EXCEPT ![nTasks + 1] =
                    [NoTask EXCEPT !.url = cl[c].key, !.timer = "tick",
                                   !.pc = "select", !.cb = cl[c].cb]]
    /\ cl' = [cl EXCEPT ![c] = [NoCaller EXCEPT !.call = "InitPush",
                                                !.ret = "nil",
                                                !.cb = cl[c].cb]]
    /\ UNCHANGED <<pushUrl, closeWG, val, crashed, pushCalls>>
    /\ UNCHANGED <<pushesTotal, pushErrorsTotal>>
    /\ UNCHANGED foreignToPush

\* A write to a pushed metric (Counter.Inc in testCloseGlobal).
WriteValue ==
    /\ ~crashed
    /\ val < MaxVal
    /\ val' = val + 1
    /\ UNCHANGED <<pushUrlChanMap, pushUrl, closeWG, task, nTasks,  crashed, cl, pushCalls>>
    /\ UNCHANGED <<pushesTotal, pushErrorsTotal>>
    /\ UNCHANGED foreignToPush

\* chanMutex.close by caller c on task i, then position p: close(c.c)
\* panics on a closed channel.  The caller waits for c.m.
chanMutex_close(c, i, p) ==
    /\ ~task[i].lock
    /\ IF task[i].closed
       THEN /\ crashed' = TRUE
            /\ cl' = [cl EXCEPT ![c].pc = "idle", ![c].ret = "panic"]
            /\ UNCHANGED task
       ELSE /\ task' = [task EXCEPT ![i].closed = TRUE]
            /\ cl' = [cl EXCEPT ![c].pc = p,
                                ![c].closed = @ \cup {i}]
            /\ UNCHANGED crashed

\* Close: the start of pushUrlChanMap.Range.
Close(c) ==
    /\ PushBegin(c, "Close")
    /\ cl' = [cl EXCEPT ![c] = [NoCaller EXCEPT !.pc = "close_range",
                                                !.call = "Close",
                                                !.val = val]]
    /\ UNCHANGED <<pushUrlChanMap, pushUrl, closeWG, task, nTasks,  val, crashed>>
    /\ UNCHANGED <<pushesTotal, pushErrorsTotal>>
    /\ UNCHANGED foreignToPush

\* Close: Range hands the next key to the callback, which starts with
\* closeWG.Add(1); with no key left Range returns.
Close_range(c) ==
    /\ ~crashed
    /\ cl[c].pc = "close_range"
    /\ LET left == {u \in URLs : pushUrlChanMap[u] # 0 /\ u \notin cl[c].visited} IN
       IF left = {}
       THEN /\ cl' = [cl EXCEPT ![c].pc = "close_wait"]
            /\ UNCHANGED closeWG
       ELSE \E u \in left :
               /\ cl' = [cl EXCEPT ![c].pc = "close_close",
                                   ![c].key = u,
                                   ![c].cur = pushUrlChanMap[u],
                                   ![c].visited = @ \cup {u}]
               /\ closeWG' = closeWG + 1
    /\ UNCHANGED <<pushUrlChanMap, pushUrl, task, nTasks,  val,
                   crashed, pushCalls>>
    /\ UNCHANGED <<pushesTotal, pushErrorsTotal>>
    /\ UNCHANGED foreignToPush

\* Close: v.(*chanMutex).close() in the callback of Range.
Close_close(c) ==
    /\ ~crashed
    /\ cl[c].pc = "close_close"
    /\ chanMutex_close(c, cl[c].cur, "close_delete")
    /\ UNCHANGED <<pushUrlChanMap, pushUrl, closeWG, nTasks, 
                   val, pushCalls>>
    /\ UNCHANGED <<pushesTotal, pushErrorsTotal>>
    /\ UNCHANGED foreignToPush

\* Close: pushUrlChanMap.Delete(k) in the callback of Range.
Close_delete(c) ==
    /\ ~crashed
    /\ cl[c].pc = "close_delete"
    /\ pushUrlChanMap' = [pushUrlChanMap EXCEPT ![cl[c].key] = 0]
    /\ cl' = [cl EXCEPT ![c].pc = "close_range"]
    /\ UNCHANGED <<pushUrl, closeWG, task, nTasks,  val,
                   crashed, pushCalls>>
    /\ UNCHANGED <<pushesTotal, pushErrorsTotal>>
    /\ UNCHANGED foreignToPush

\* Set.Close: pushUrlChanMap.LoadAndDelete(s.pushUrl); nil at once when the
\* key is missing.
SetClose(c, s) ==
    /\ PushBegin(c, "SetClose")
    /\ LET u == pushUrl[s]
           i == IF u = 0 THEN 0 ELSE pushUrlChanMap[u] IN
       IF i = 0
       THEN /\ cl' = [cl EXCEPT ![c] = [NoCaller EXCEPT !.call = "SetClose",
                                                        !.val = val,
                                                        !.ret = "nil"]]
            /\ UNCHANGED pushUrlChanMap
       ELSE /\ cl' = [cl EXCEPT ![c] = [NoCaller EXCEPT !.pc = "sc_add",
                                                        !.call = "SetClose",
                                                        !.val = val,
                                                        !.key = u,
                                                        !.cur = i]]
            /\ pushUrlChanMap' = [pushUrlChanMap EXCEPT ![u] = 0]
    /\ UNCHANGED <<pushUrl, closeWG, task, nTasks,  val,
                   crashed>>
    /\ UNCHANGED <<pushesTotal, pushErrorsTotal>>
    /\ UNCHANGED foreignToPush

\* Set.Close: closeWG.Add(1)
SetClose_add(c) ==
    /\ ~crashed
    /\ cl[c].pc = "sc_add"
    /\ closeWG' = closeWG + 1
    /\ cl' = [cl EXCEPT ![c].pc = "sc_close"]
    /\ UNCHANGED <<pushUrlChanMap, pushUrl, task, nTasks,  val,
                   crashed, pushCalls>>
    /\ UNCHANGED <<pushesTotal, pushErrorsTotal>>
    /\ UNCHANGED foreignToPush

\* Set.Close: v.(*chanMutex).close()
SetClose_close(c) ==
    /\ ~crashed
    /\ cl[c].pc = "sc_close"
    /\ chanMutex_close(c, cl[c].cur, "close_wait")
    /\ UNCHANGED <<pushUrlChanMap, pushUrl, closeWG, nTasks, 
                   val, pushCalls>>
    /\ UNCHANGED <<pushesTotal, pushErrorsTotal>>
    /\ UNCHANGED foreignToPush

\* Close and Set.Close: closeWG.Wait(), return nil.
Close_wait(c) ==
    /\ ~crashed
    /\ cl[c].pc = "close_wait"
    /\ closeWG = 0
    /\ cl' = [cl EXCEPT ![c].pc = "idle", ![c].ret = "nil"]
    /\ UNCHANGED <<pushUrlChanMap, pushUrl, closeWG, task, nTasks,  val, crashed, pushCalls>>
    /\ UNCHANGED <<pushesTotal, pushErrorsTotal>>
    /\ UNCHANGED foreignToPush

\* send without the look at c.closed.
sendUnchecked(t) == [t EXCEPT !.timer = "sending", !.lock = TRUE]

\* chanMutex.send with c.m taken: false when the channel is closed, and
\* then timeTrigger stops the ticker; else it blocks in the send, holding
\* c.m.
send(t) ==
    IF t.closed THEN [t EXCEPT !.timer = "stopped"]
    ELSE [t EXCEPT !.timer = "sending", !.lock = TRUE]

\* The ticker goroutine of timeTrigger calls c.send() when c.m is free.
\* A run ends its ticks with the MaxPushes-th push to the URL.
timeTrigger(i) ==
    /\ ~crashed
    /\ task[i].timer = "tick"
    /\ pushesTotal[task[i].url] < MaxPushes
    /\ ~task[i].lock
    /\ task' = [task EXCEPT ![i] = send(task[i])]
    /\ UNCHANGED <<pushUrlChanMap, pushUrl, closeWG, nTasks, 
                   val, crashed, cl, pushCalls>>
    /\ UNCHANGED <<pushesTotal, pushErrorsTotal>>
    /\ UNCHANGED foreignToPush

\* The push goroutine receives from cm.c: a tick of the blocked sender
\* (ok), or the zero value of the closed channel (!ok).
Push_receive(i) ==
    /\ ~crashed
    /\ task[i].pc = "select"
    /\ \/ /\ task[i].timer = "sending"
          /\ task' = [task EXCEPT ![i].timer = "tick", ![i].lock = FALSE,
                                  ![i].ok = TRUE, ![i].pc = "write"]
       \/ /\ task[i].closed
          /\ pushesTotal[task[i].url] < MaxPushes
          /\ task' = [task EXCEPT ![i].ok = FALSE, ![i].pc = "write"]
    /\ UNCHANGED <<pushUrlChanMap, pushUrl, closeWG, nTasks, 
                   val, crashed, cl, pushCalls>>
    /\ UNCHANGED <<pushesTotal, pushErrorsTotal>>
    /\ UNCHANGED foreignToPush

\* Counter.Inc, n times, on the counter pushMetrics keeps for the URL.
\* The runs that do not look at the counters of pushMetrics leave them at
\* zero.
Inc(counter, u, n) ==
    IF cfg.counters THEN [counter EXCEPT ![u] = @ + n] ELSE counter

\* The push goroutine marshals the metrics, writeMetrics(&bb), compresses
\* them and counts the push: pushesTotal.Inc().
Push_writeMetrics(i) ==
    /\ ~crashed
    /\ task[i].pc = "write"
    /\ task' = [task EXCEPT ![i].buf = val, ![i].pc = "do"]
    /\ pushesTotal' = Inc(pushesTotal, task[i].url, 1)
    /\ UNCHANGED <<pushUrlChanMap, pushUrl, closeWG, nTasks, 
                   val, crashed, cl, pushCalls, pushErrorsTotal>>
    /\ UNCHANGED foreignToPush

\* The end of a push that followed a receive with the given ok.
pushResultDoneOnError(ok, answer) ==
    IF ~ok THEN [pc |-> "done", done |-> TRUE, delivered |-> answer = "ok",
                 errors |-> IF answer = "ok" THEN 0 ELSE 1]
    ELSE [pc |-> "select", done |-> FALSE, delivered |-> answer = "ok",
          errors |-> IF answer = "ok" THEN 0 ELSE 1]

\* The end of a push that does not count a response that is not 2xx.
pushResultStatusNotCounted(ok, answer) ==
    IF answer # "ok"
    THEN [pc |-> "select", done |-> FALSE, delivered |-> FALSE,
          errors |-> IF answer = "error" THEN 1 ELSE 0]
    ELSE IF ~ok
    THEN [pc |-> "done", done |-> TRUE, delivered |-> TRUE, errors |-> 0]
    ELSE [pc |-> "select", done |-> FALSE, delivered |-> TRUE, errors |-> 0]

\* The end of a push that followed a receive with the given ok: a failed
\* request and a response that is not 2xx call pushErrorsTotal.Inc() and
\* continue the loop; after a 2xx response the goroutine of a closed
\* channel calls closeWG.Done() and returns.
pushResult(ok, answer) ==
    IF answer # "ok"
    THEN [pc |-> "select", done |-> FALSE, delivered |-> FALSE, errors |-> 1]
    ELSE IF ~ok
    THEN [pc |-> "done", done |-> TRUE, delivered |-> TRUE, errors |-> 0]
    ELSE [pc |-> "select", done |-> FALSE, delivered |-> TRUE, errors |-> 0]

\* The answers to a request: a 2xx response, a failed request, a response
\* that is not 2xx.
Answers == {"ok", "error", "status"}

\* The push goroutine sends the request: c.Do(req) and what follows.
Push_do(i, answer) ==
    /\ ~crashed
    /\ task[i].pc = "do"
    /\ LET r == pushResult(task[i].ok, answer) IN
       /\ task' = [task EXCEPT ![i].pc = r.pc,
                               ![i].buf = -1,
                               ![i].delivered = IF r.delivered /\ r.done
                                                THEN task[i].buf ELSE @,
                               ![i].failed = @ \/ (~task[i].ok /\ ~r.delivered)]
       /\ closeWG' = IF r.done THEN closeWG - 1 ELSE closeWG
       /\ pushErrorsTotal' = Inc(pushErrorsTotal, task[i].url, r.errors)
    /\ UNCHANGED <<pushUrlChanMap, pushUrl, nTasks,  val,
                   crashed, cl, pushCalls, pushesTotal>>
    /\ UNCHANGED foreignToPush

CallerNext(c) ==
    \/ \E s \in PushSets \cup {0}, u \in URLs, f \in cfg.callbacks,
          valid \in BOOLEAN :
           InitPushExt(c, s, u, f, valid)
    \/ InitPushExt_store(c)
    \/ Close(c)
    \/ Close_range(c)
    \/ Close_close(c)
    \/ Close_delete(c)
    \/ \E s \in PushSets : SetClose(c, s)
    \/ SetClose_add(c)
    \/ SetClose_close(c)
    \/ Close_wait(c)

TaskNext(i) ==
    \/ timeTrigger(i)
    \/ Push_receive(i)
    \/ Push_writeMetrics(i)
    \/ \E answer \in Answers : Push_do(i, answer)

PushNext ==
    \/ \E c \in Threads : CallerNext(c)
    \/ \E i \in TaskIds : TaskNext(i)
    \/ WriteValue

\* Two callers of InitPush* and Close, and the push tasks they start.
PushInit ==
    /\ cfg = [threads |-> Threads, names |-> {}, scalars |-> {},
              params |-> {}, maxOps |-> 0, hists |-> {}, hvals |-> {},
              panics |-> FALSE, counterOps |-> {},
              callbacks |-> {1}, counters |-> FALSE,
              vmcalls |-> {}, vmvals |-> {},
              history |-> FALSE, metadata |-> FALSE]
    /\ SetInitState
    /\ PushInitState
    /\ SummaryInitState
    /\ HistInitState
    /\ CounterInitState
    /\ LockInitState
    /\ TextInitState
    /\ VmHistInitState

PushSpec == PushInit /\ [][PushNext]_vars

\* One caller; every goroutine that can take a step takes one in the end.
\* Nothing is assumed of the answers of the servers.
PushFairInit ==
    /\ cfg = [threads |-> {1}, names |-> {}, scalars |-> {},
              params |-> {}, maxOps |-> 0, hists |-> {}, hvals |-> {},
              panics |-> FALSE, counterOps |-> {},
              callbacks |-> {1}, counters |-> FALSE,
              vmcalls |-> {}, vmvals |-> {},
              history |-> FALSE, metadata |-> FALSE]
    /\ SetInitState
    /\ PushInitState
    /\ SummaryInitState
    /\ HistInitState
    /\ CounterInitState
    /\ LockInitState
    /\ TextInitState
    /\ VmHistInitState

\* A caller that waits for c.m gets it in the end (sync.Mutex hands the
\* lock to a waiter that has waited long), so close() is strongly fair.
PushFairness ==
    /\ \A c \in Threads :
          /\ WF_vars(InitPushExt_store(c) \/ Close_range(c)
                     \/ Close_delete(c) \/ SetClose_add(c)
                     \/ Close_wait(c))
          /\ SF_vars(Close_close(c) \/ SetClose_close(c))
    /\ \A i \in TaskIds : WF_vars(TaskNext(i))

PushFairSpec == PushFairInit /\ [][PushNext]_vars /\ PushFairness

\* One caller, and the counters pushMetrics keeps for each URL.
PushCountInit ==
    /\ cfg = [threads |-> {1}, names |-> {}, scalars |-> {},
              params |-> {}, maxOps |-> 0, hists |-> {}, hvals |-> {},
              panics |-> FALSE, counterOps |-> {},
              callbacks |-> {1}, counters |-> TRUE,
              vmcalls |-> {}, vmvals |-> {},
              history |-> FALSE, metadata |-> FALSE]
    /\ SetInitState
    /\ PushInitState
    /\ SummaryInitState
    /\ HistInitState
    /\ CounterInitState
    /\ LockInitState
    /\ TextInitState
    /\ VmHistInitState

\* InitPush for either URL, the push tasks with their tickers, and Close.
PushCountNext ==
    \/ \E c \in Threads :
          \/ \E u \in URLs : InitPushExt(c, 0, u, 1, TRUE)
          \/ InitPushExt_store(c)
          \/ Close(c)
          \/ Close_range(c)
          \/ Close_close(c)
          \/ Close_delete(c)
          \/ Close_wait(c)
    \/ \E i \in TaskIds : TaskNext(i)

PushCountSpec == PushCountInit /\ [][PushCountNext]_vars

\* One caller that passes either of two writeMetrics callbacks.
PushCbInit ==
    /\ cfg = [threads |-> {1}, names |-> {}, scalars |-> {},
              params |-> {}, maxOps |-> 0, hists |-> {}, hvals |-> {},
              panics |-> FALSE, counterOps |-> {},
              callbacks |-> {1, 2}, counters |-> FALSE,
              vmcalls |-> {}, vmvals |-> {},
              history |-> FALSE, metadata |-> FALSE]
    /\ SetInitState
    /\ PushInitState
    /\ SummaryInitState
    /\ HistInitState
    /\ CounterInitState
    /\ LockInitState
    /\ TextInitState
    /\ VmHistInitState

PushCbSpec == PushCbInit /\ [][PushNext]_vars

\* --------------------------------------------------------------- Summary

\* A value of quantileValues: a number or NaN.
NaN == [nan |-> TRUE, v |-> 0]
Float(v) == [nan |-> FALSE, v |-> v]

Min(S) == CHOOSE x \in S : \A y \in S : x <= y
Max(S) == CHOOSE x \in S : \A y \in S : x >= y

\* histogram.NewFast(), Fast.Reset(): a reservoir with no value.
NewFast == {}

\* Fast.Update(v): the reservoirs a bounded reservoir r can become.  Below
\* its capacity it stores v; a full one drops v or stores it in the place
\* of a value it holds.
FastUpdate(r, v) ==
    IF Cardinality(r) < ReservoirCap
    THEN {r \cup {v}}
    ELSE {r} \cup {(r \ {x}) \cup {v} : x \in r}

\* Fast.Quantiles(dst[:0], phis): NaN for each quantile of a reservoir with
\* no value; else the first is the least and the others the greatest value
\* it holds.
FastQuantiles(r, phis) ==
    [i \in 1..Len(phis) |->
        IF r = {} THEN NaN
        ELSE IF i = 1 THEN Float(Min(r)) ELSE Float(Max(r))]

\* &Summary{curr, next, quantiles, quantileValues}; quantileValues starts
\* as make([]float64, len(quantiles)).  swaps, fresh (quantileValues were
\* refreshed and the reservoirs have not changed since), marshalled and
\* lines (the quantileValues marshalled, and those that wrote a line, since
\* the refresh) are history.
NewSummaryObject(window, quantiles) ==
    [window |-> window, curr |-> NewFast, next |-> NewFast,
     quantiles |-> quantiles,
     quantileValues |-> [i \in 1..Len(quantiles) |-> Float(0)],
     swaps |-> 0, fresh |-> FALSE, marshalled |-> {}, lines |-> {}]

\* The swap of summariesSwapCron that forgets next.Reset().
swapNoReset(sm) ==
    [sm EXCEPT !.curr = sm.next, !.next = sm.curr, !.swaps = @ + 1,
               !.fresh = FALSE]

\* The body of the loop of summariesSwapCron: tmp := s.curr; s.curr =
\* s.next; s.next = tmp; s.next.Reset()
swap(sm) ==
    [sm EXCEPT !.curr = sm.next, !.next = NewFast, !.swaps = @ + 1,
               !.fresh = FALSE]

\* NewSummaryExt, as far as the Summary goes: the new Summary and
\* registerSummary(s, window), which starts the swap task of a window with
\* its first summary.
Summary_New(p) ==
    /\ nextId <= MaxSummaries
    /\ sums' = (nextId :> NewSummaryObject(p[1], p[2])) @@ sums
    /\ swapReg' = registerSummary(swapReg, newSummary(nextId, p[1], p[2]))
    /\ crons' = startCron(crons, swapReg, newSummary(nextId, p[1], p[2]))
    /\ nextId' = nextId + 1
    /\ UNCHANGED upd
    /\ UNCHANGED foreignToSummary

\* Summary.Update(v): s.curr.Update(v); s.next.Update(v) under s.mu.  The
\* value is the number of the update.
Summary_Update(s) ==
    /\ Len(upd) < MaxUpdates
    /\ LET v == Len(upd) + 1 IN
       \E c \in FastUpdate(sums[s].curr, v), n \in FastUpdate(sums[s].next, v) :
           sums' = [sums EXCEPT ![s].curr = c, ![s].next = n,
                                ![s].fresh = FALSE]
    /\ upd' = Append(upd, [sm |-> s, at |-> sums[s].swaps])
    /\ UNCHANGED <<swapReg, crons, nextId>>
    /\ UNCHANGED foreignToSummary

\* One round of summariesSwapCron(window): under summariesLock, the swap
\* of every summary of the window.
summariesSwapCron(w) ==
    /\ crons[w] > 0
    /\ \A s \in Range(swapReg[w]) : sums[s].swaps < MaxSwaps
    /\ sums' = [s \in DOMAIN sums |->
                   IF s \in Range(swapReg[w]) THEN swap(sums[s]) ELSE sums[s]]
    /\ UNCHANGED <<swapReg, crons, nextId, upd>>
    /\ UNCHANGED foreignToSummary

\* Summary.updateQuantiles()
updateQuantiles(s) ==
    /\ ~sums[s].fresh
    /\ sums' = [sums EXCEPT
                   ![s].quantileValues = FastQuantiles(sums[s].curr,
                                                       sums[s].quantiles),
                   ![s].fresh = TRUE, ![s].marshalled = {}, ![s].lines = {}]
    /\ UNCHANGED <<swapReg, crons, nextId, upd>>
    /\ UNCHANGED foreignToSummary

\* quantileValue.marshalTo of the quantileValue idx of s: a line unless the
\* cached value is NaN.
quantileValue_marshalTo(s, idx) ==
    /\ idx \in DOMAIN sums[s].quantileValues
    /\ idx \notin sums[s].marshalled
    /\ sums' = [sums EXCEPT
                   ![s].marshalled = @ \cup {idx},
                   ![s].lines = IF sums[s].quantileValues[idx].nan
                                THEN @ ELSE @ \cup {idx}]
    /\ UNCHANGED <<swapReg, crons, nextId, upd>>
    /\ UNCHANGED foreignToSummary

SummaryNext ==
    \/ \E p \in cfg.params : Summary_New(p)
    \/ \E s \in DOMAIN sums :
          \/ Summary_Update(s)
          \/ updateQuantiles(s)
          \/ \E idx \in 1..Len(defaultSummaryQuantiles) :
                 quantileValue_marshalTo(s, idx)
    \/ \E w \in Windows : summariesSwapCron(w)

\* Summaries of two windows, their updates and their swap tasks.
SummaryInit ==
    /\ cfg = [threads |-> {}, names |-> {}, scalars |-> {},
              params |-> {<<defaultSummaryWindow, defaultSummaryQuantiles>>,
                          <<1, defaultSummaryQuantiles>>},
              maxOps |-> 0, hists |-> {}, hvals |-> {},
              panics |-> FALSE, counterOps |-> {},
              callbacks |-> {1}, counters |-> FALSE,
              vmcalls |-> {}, vmvals |-> {},
              history |-> FALSE, metadata |-> FALSE]
    /\ SetInitState
    /\ PushInitState
    /\ SummaryInitState
    /\ HistInitState
    /\ CounterInitState
    /\ LockInitState
    /\ TextInitState
    /\ VmHistInitState

SummarySpec == SummaryInit /\ [][SummaryNext]_vars

\* ------------------------------------------------------ PrometheusHistogram

\* The values passed to Update: NaN, a negative value, and the values up
\* to MaxHistVal, which fall on a bound, between the bounds and above them.
HistValues == {NaN, Float(-1)} \cup {Float(v) : v \in 0..MaxHistVal}

\* A mutex that never blocks.
LockAlways(holder) == TRUE

\* Update that puts a value equal to a bound into the next bucket.
bucketIdxBelow(upperBounds, v) ==
    IF \E i \in 1..Len(upperBounds) : v < upperBounds[i]
    THEN Min({i \in 1..Len(upperBounds) : v < upperBounds[i]})
    ELSE 0

\* h.mu.Lock() returns once no caller holds the mutex.
Lock(holder) == holder = 0

\* Update: the index of the first bound that v does not exceed, 0 (the -1
\* of the code) when v exceeds them all.
bucketIdx(upperBounds, v) ==
    IF \E i \in 1..Len(upperBounds) : v <= upperBounds[i]
    THEN Min({i \in 1..Len(upperBounds) : v <= upperBounds[i]})
    ELSE 0

\* The lines of marshalTo.
BucketLine(ub, n) == [kind |-> "bucket", le |-> ub, v |-> n]
InfLine(n) == [kind |-> "bucket+Inf", le |-> 0, v |-> n]
SumLine(x) == [kind |-> "sum", le |-> 0, v |-> x]
CountLine(n) == [kind |-> "count", le |-> 0, v |-> n]

HistBegin(t, o) ==
    /\ hpc[t] = "idle"
    /\ hcalls < cfg.maxOps
    /\ hcalls' = hcalls + 1
    /\ hop' = [hop EXCEPT ![t] = o]
    /\ hsnap' = [hsnap EXCEPT ![t] = <<>>]
    /\ hw' = [hw EXCEPT ![t] = <<>>]

HistGoto(t, l) == hpc' = [hpc EXCEPT ![t] = l]

\* Update, up to h.mu.Lock(): NaN and negative values return at once, the
\* bucket of any other value is found without the lock.
PromHist_Update(t) ==
    \E h \in cfg.hists, x \in cfg.hvals :
        /\ hist[h].built
        /\ HistBegin(t, [call |-> "Update", h |-> h, src |-> 0, v |-> x.v,
                         nan |-> x.nan])
        /\ IF x.nan \/ x.v < 0
           THEN UNCHANGED <<hpc, hloc>>
           ELSE /\ HistGoto(t, "Update_lock")
                /\ hloc' = [hloc EXCEPT ![t].bucketIdx =
                                bucketIdx(hist[h].upperBounds, x.v)]
        /\ UNCHANGED <<hist, hmu, habs>>
        /\ UNCHANGED foreignToHist

PromHist_Update_lock(t) ==
    LET h == hop[t].h IN
    /\ hpc[t] = "Update_lock"
    /\ Lock(hmu[h])
    /\ hmu' = [hmu EXCEPT ![h] = t]
    /\ habs' = [habs EXCEPT ![h].vals[hop[t].v] = @ + 1]
    /\ HistGoto(t, "Update_sum")
    /\ UNCHANGED <<hist, hop, hloc, hw, hsnap, hcalls>>
    /\ UNCHANGED foreignToHist

PromHist_Update_sum(t) ==
    LET h == hop[t].h IN
    /\ hpc[t] = "Update_sum"
    /\ hist' = [hist EXCEPT ![h].sum = @ + hop[t].v]
    /\ HistGoto(t, "Update_count")
    /\ UNCHANGED <<hmu, hop, hloc, hw, habs, hsnap, hcalls>>
    /\ UNCHANGED foreignToHist

\* h.count++, then the bucket unless the value is above every bound; the
\* deferred Unlock ends the call.
PromHist_Update_count(t) ==
    LET h == hop[t].h
        idx == hloc[t].bucketIdx
    IN
    /\ hpc[t] = "Update_count"
    /\ hist' = [hist EXCEPT ![h].count = @ + 1,
                            ![h].buckets =
                                IF idx = 0 THEN @
                                ELSE [@ EXCEPT ![idx] = @ + 1]]
    /\ hmu' = [hmu EXCEPT ![h] = 0]
    /\ hloc' = [hloc EXCEPT ![t] = NoLocals]
    /\ HistGoto(t, "idle")
    /\ UNCHANGED <<hop, hw, habs, hsnap, hcalls>>
    /\ UNCHANGED foreignToHist

PromHist_Reset(t) ==
    \E h \in cfg.hists :
        /\ hist[h].built
        /\ HistBegin(t, [call |-> "Reset", h |-> h, src |-> 0, v |-> 0,
                         nan |-> FALSE])
        /\ HistGoto(t, "Reset_lock")
        /\ UNCHANGED <<hist, hmu, hloc, habs>>
        /\ UNCHANGED foreignToHist

PromHist_Reset_lock(t) ==
    LET h == hop[t].h IN
    /\ hpc[t] = "Reset_lock"
    /\ Lock(hmu[h])
    /\ hmu' = [hmu EXCEPT ![h] = t]
    /\ habs' = [habs EXCEPT ![h] = NoObservations]
    /\ HistGoto(t, "Reset_buckets")
    /\ UNCHANGED <<hist, hop, hloc, hw, hsnap, hcalls>>
    /\ UNCHANGED foreignToHist

PromHist_Reset_buckets(t) ==
    LET h == hop[t].h IN
    /\ hpc[t] = "Reset_buckets"
    /\ hist' = [hist EXCEPT ![h].buckets = [i \in DOMAIN @ |-> 0]]
    /\ HistGoto(t, "Reset_sum")
    /\ UNCHANGED <<hmu, hop, hloc, hw, habs, hsnap, hcalls>>
    /\ UNCHANGED foreignToHist

PromHist_Reset_sum(t) ==
    LET h == hop[t].h IN
    /\ hpc[t] = "Reset_sum"
    /\ hist' = [hist EXCEPT ![h].sum = 0, ![h].count = 0]
    /\ hmu' = [hmu EXCEPT ![h] = 0]
    /\ HistGoto(t, "idle")
    /\ UNCHANGED <<hop, hloc, hw, habs, hsnap, hcalls>>
    /\ UNCHANGED foreignToHist

\* Merge of src into another histogram h.
PromHist_Merge(t) ==
    \E h \in cfg.hists, src \in cfg.hists :
        /\ h # src
        /\ hist[h].built /\ hist[src].built
        /\ HistBegin(t, [call |-> "Merge", h |-> h, src |-> src, v |-> 0,
                         nan |-> FALSE])
        /\ HistGoto(t, "Merge_lock")
        /\ UNCHANGED <<hist, hmu, hloc, habs>>
        /\ UNCHANGED foreignToHist

PromHist_Merge_lock(t) ==
    LET h == hop[t].h IN
    /\ hpc[t] = "Merge_lock"
    /\ Lock(hmu[h])
    /\ hmu' = [hmu EXCEPT ![h] = t]
    /\ HistGoto(t, "Merge_lock_src")
    /\ UNCHANGED <<hist, hop, hloc, hw, habs, hsnap, hcalls>>
    /\ UNCHANGED foreignToHist

PromHist_Merge_lock_src(t) ==
    LET h == hop[t].h
        src == hop[t].src
    IN
    /\ hpc[t] = "Merge_lock_src"
    /\ Lock(hmu[src])
    /\ hmu' = [hmu EXCEPT ![src] = t]
    /\ hsnap' = [hsnap EXCEPT ![t] = [h |-> hist[h], src |-> hist[src]]]
    /\ habs' = [habs EXCEPT
                   ![h] = [vals |-> [v \in DOMAIN @.vals |->
                                        @.vals[v] + habs[src].vals[v]],
                           merged |-> TRUE]]
    /\ HistGoto(t, "Merge_add")
    /\ UNCHANGED <<hist, hop, hloc, hw, hcalls>>
    /\ UNCHANGED foreignToHist

\* What Merge does to h with both mutexes held.
merge(h, src) ==
    [h EXCEPT !.sum = @ + src.sum,
              !.count = @ + src.count]

PromHist_Merge_add(t) ==
    LET h == hop[t].h
        src == hop[t].src
    IN
    /\ hpc[t] = "Merge_add"
    /\ hist' = [hist EXCEPT ![h] = merge(hist[h], hist[src])]
    /\ hmu' = [hmu EXCEPT ![h] = 0, ![src] = 0]
    /\ HistGoto(t, "idle")
    /\ UNCHANGED <<hop, hloc, hw, habs, hsnap, hcalls>>
    /\ UNCHANGED foreignToHist

PromHist_marshalTo(t) ==
    \E h \in cfg.hists :
        /\ hist[h].built
        /\ HistBegin(t, [call |-> "marshalTo", h |-> h, src |-> 0, v |-> 0,
                         nan |-> FALSE])
        /\ HistGoto(t, "marshalTo_lock")
        /\ UNCHANGED <<hist, hmu, hloc, habs>>
        /\ UNCHANGED foreignToHist

\* marshalTo takes the mutex and reads count and sum; with no observation
\* it unlocks and returns.
PromHist_marshalTo_lock(t) ==
    LET h == hop[t].h IN
    /\ hpc[t] = "marshalTo_lock"
    /\ Lock(hmu[h])
    /\ hsnap' = [hsnap EXCEPT ![t] = habs[h]]
    /\ IF hist[h].count = 0
       THEN /\ HistGoto(t, "idle")
            /\ UNCHANGED <<hmu, hloc>>
       ELSE /\ hmu' = [hmu EXCEPT ![h] = t]
            /\ hloc' = [hloc EXCEPT ![t].count = hist[h].count,
                                    ![t].sum = hist[h].sum,
                                    ![t].cumulativeSum = 0,
                                    ![t].i = 1]
            /\ HistGoto(t, "marshalTo_buckets")
    /\ UNCHANGED <<hist, hop, hw, habs, hcalls>>
    /\ UNCHANGED foreignToHist

\* One round of the loop over h.upperBounds, under the mutex.
PromHist_marshalTo_buckets(t) ==
    LET h == hop[t].h
        i == hloc[t].i
        cumulativeSum == hloc[t].cumulativeSum + hist[h].buckets[i]
    IN
    /\ hpc[t] = "marshalTo_buckets"
    /\ i <= Len(hist[h].upperBounds)
    /\ hloc' = [hloc EXCEPT ![t].cumulativeSum = cumulativeSum,
                            ![t].i = i + 1]
    /\ hw' = [hw EXCEPT ![t] =
                 Append(@, BucketLine(hist[h].upperBounds[i], cumulativeSum))]
    /\ UNCHANGED <<hist, hmu, hpc, hop, habs, hsnap, hcalls>>
    /\ UNCHANGED foreignToHist

\* After the loop: Unlock, then the +Inf, _sum and _count lines from the
\* locals.
PromHist_marshalTo_unlock(t) ==
    LET h == hop[t].h IN
    /\ hpc[t] = "marshalTo_buckets"
    /\ hloc[t].i > Len(hist[h].upperBounds)
    /\ hmu' = [hmu EXCEPT ![h] = 0]
    /\ hw' = [hw EXCEPT ![t] = @ \o <<InfLine(hloc[t].count),
                                      SumLine(hloc[t].sum),
                                      CountLine(hloc[t].count)>>]
    /\ hloc' = [hloc EXCEPT ![t] = NoLocals]
    /\ HistGoto(t, "idle")
    /\ UNCHANGED <<hist, hop, habs, hsnap, hcalls>>
    /\ UNCHANGED foreignToHist

HistNext ==
    \E t \in cfg.threads :
        \/ PromHist_Update(t)
        \/ PromHist_Update_lock(t)
        \/ PromHist_Update_sum(t)
        \/ PromHist_Update_count(t)
        \/ PromHist_Reset(t)
        \/ PromHist_Reset_lock(t)
        \/ PromHist_Reset_buckets(t)
        \/ PromHist_Reset_sum(t)
        \/ PromHist_marshalTo(t)
        \/ PromHist_marshalTo_lock(t)
        \/ PromHist_marshalTo_buckets(t)
        \/ PromHist_marshalTo_unlock(t)

\* Two callers update, reset and marshal one histogram.
HistInit ==
    /\ cfg = [threads |-> Threads, names |-> {}, scalars |-> {},
              params |-> {}, maxOps |-> MaxHistOps, hists |-> {1},
              hvals |-> {NaN, Float(1), Float(MaxHistVal)},
              panics |-> FALSE, counterOps |-> {},
              callbacks |-> {1}, counters |-> FALSE,
              vmcalls |-> {}, vmvals |-> {},
              history |-> FALSE, metadata |-> FALSE]
    /\ SetInitState
    /\ PushInitState
    /\ SummaryInitState
    /\ HistInitState
    /\ CounterInitState
    /\ LockInitState
    /\ TextInitState
    /\ VmHistInitState

HistSpec == HistInit /\ [][HistNext]_vars

InfNext ==
    \E t \in cfg.threads :
        \/ PromHist_Update(t)
        \/ PromHist_Update_lock(t)
        \/ PromHist_Update_sum(t)
        \/ PromHist_Update_count(t)
        \/ PromHist_marshalTo(t)
        \/ PromHist_marshalTo_lock(t)
        \/ PromHist_marshalTo_buckets(t)
        \/ PromHist_marshalTo_unlock(t)

\* Histogram 1 is constructed from a list of bounds and histogram 2 from
\* the same list followed by +Inf; two callers update and marshal those
\* that were constructed.
InfInit ==
    /\ cfg = [threads |-> {1, 2}, names |-> {}, scalars |-> {},
              params |-> {}, maxOps |-> MaxHistOps, hists |-> {1, 2},
              hvals |-> {Float(1), Float(MaxHistVal)},
              panics |-> FALSE, counterOps |-> {},
              callbacks |-> {1}, counters |-> FALSE,
              vmcalls |-> {}, vmvals |-> {},
              history |-> FALSE, metadata |-> FALSE]
    /\ SetInitState
    /\ PushInitState
    /\ SummaryInitState
    /\ \E B \in BoundLists :
          HistObjectInitState([h \in cfg.hists |->
                                  IF h = 1 THEN B ELSE Append(B, PosInf)])
    /\ CounterInitState
    /\ LockInitState
    /\ TextInitState
    /\ VmHistInitState

InfSpec == InfInit /\ [][InfNext]_vars

HistSeqNext ==
    \/ HistNext
    \/ \E t \in cfg.threads :
          \/ PromHist_Merge(t)
          \/ PromHist_Merge_lock(t)
          \/ PromHist_Merge_lock_src(t)
          \/ PromHist_Merge_add(t)

\* One caller updates, resets, merges and marshals two histograms of the
\* same bounds.
HistSeqInit ==
    /\ cfg = [threads |-> {1}, names |-> {}, scalars |-> {},
              params |-> {}, maxOps |-> MaxHistOps, hists |-> {1, 2},
              hvals |-> HistValues, panics |-> FALSE, counterOps |-> {},
              callbacks |-> {1}, counters |-> FALSE,
              vmcalls |-> {}, vmvals |-> {},
              history |-> FALSE, metadata |-> FALSE]
    /\ SetInitState
    /\ PushInitState
    /\ SummaryInitState
    /\ HistInitState
    /\ CounterInitState
    /\ LockInitState
    /\ TextInitState
    /\ VmHistInitState

HistSeqSpec == HistSeqInit /\ [][HistSeqNext]_vars

\* The steps of a caller that take a mutex, and all of its steps.
PromHistLock(t) ==
    \/ PromHist_Update_lock(t)
    \/ PromHist_Reset_lock(t)
    \/ PromHist_Merge_lock(t)
    \/ PromHist_Merge_lock_src(t)
    \/ PromHist_marshalTo_lock(t)

PromHistStep(t) ==
    \/ PromHistLock(t)
    \/ PromHist_Update(t)
    \/ PromHist_Update_sum(t)
    \/ PromHist_Update_count(t)
    \/ PromHist_Reset(t)
    \/ PromHist_Reset_buckets(t)
    \/ PromHist_Reset_sum(t)
    \/ PromHist_Merge(t)
    \/ PromHist_Merge_add(t)
    \/ PromHist_marshalTo(t)
    \/ PromHist_marshalTo_buckets(t)
    \/ PromHist_marshalTo_unlock(t)

\* Two callers update, reset, merge and marshal two histograms of the same
\* bounds, each into the other too.
MergeFairInit ==
    /\ cfg = [threads |-> {1, 2}, names |-> {}, scalars |-> {},
              params |-> {}, maxOps |-> MaxHistOps, hists |-> {1, 2},
              hvals |-> {Float(1)}, panics |-> FALSE, counterOps |-> {},
              callbacks |-> {1}, counters |-> FALSE,
              vmcalls |-> {}, vmvals |-> {},
              history |-> FALSE, metadata |-> FALSE]
    /\ SetInitState
    /\ PushInitState
    /\ SummaryInitState
    /\ HistInitState
    /\ CounterInitState
    /\ LockInitState
    /\ TextInitState
    /\ VmHistInitState

\* A caller that can take a step takes one in the end, and one that waits
\* for a mutex that is free again and again gets it in the end.
MergeFairness ==
    \A t \in {1, 2} : WF_vars(PromHistStep(t)) /\ SF_vars(PromHistLock(t))

MergeFairSpec == MergeFairInit /\ [][HistSeqNext]_vars /\ MergeFairness

\* ------------------------------------------------------------------ Counter

\* uint64(x): the conversion of an int wraps.
uint64(x) == x % CounterModulus

\* An add that forgets the carry out of the lowest bit.
AddUint64NoCarry(addr, delta) == IF addr % 2 = 1 THEN addr ELSE uint64(addr + delta)

\* atomic.AddUint64(&c.n, delta)
AddUint64(addr, delta) == uint64(addr + delta)

CounterCall(t, call) ==
    /\ call \in cfg.counterOps
    /\ ccalls < cfg.maxOps
    /\ ccalls' = ccalls + 1

Counter_Inc(t) ==
    /\ CounterCall(t, "Inc")
    /\ cn' = AddUint64(cn, 1)
    /\ net' = net + 1
    /\ incs' = incs + 1
    /\ UNCHANGED <<got, gotNet>>
    /\ UNCHANGED foreignToCounter

\* Dec adds ^uint64(0), all bits set.
Counter_Dec(t) ==
    /\ CounterCall(t, "Dec")
    /\ cn' = AddUint64(cn, CounterModulus - 1)
    /\ net' = net - 1
    /\ UNCHANGED <<got, gotNet, incs>>
    /\ UNCHANGED foreignToCounter

Counter_Add(t) ==
    \E x \in (-MaxArg)..MaxArg :
        /\ CounterCall(t, "Add")
        /\ cn' = AddUint64(cn, uint64(x))
        /\ net' = net + x
        /\ UNCHANGED <<got, gotNet, incs>>
        /\ UNCHANGED foreignToCounter

Counter_Set(t) ==
    \E x \in 0..MaxArg :
        /\ CounterCall(t, "Set")
        /\ cn' = x
        /\ net' = x
        /\ UNCHANGED <<got, gotNet, incs>>
        /\ UNCHANGED foreignToCounter

Counter_Get(t) ==
    /\ CounterCall(t, "Get")
    /\ got' = [got EXCEPT ![t] = cn]
    /\ gotNet' = [gotNet EXCEPT ![t] = net]
    /\ UNCHANGED <<cn, net, incs>>
    /\ UNCHANGED foreignToCounter

\* Callers that increment one counter and read it.
CounterNext ==
    \E t \in cfg.threads :
        \/ Counter_Inc(t)
        \/ Counter_Get(t)

CounterInit ==
    /\ cfg = [threads |-> Threads, names |-> {}, scalars |-> {},
              params |-> {}, maxOps |-> MaxCounterOps, hists |-> {},
              hvals |-> {}, panics |-> FALSE, counterOps |-> {"Inc", "Get"},
              callbacks |-> {1}, counters |-> FALSE,
              vmcalls |-> {}, vmvals |-> {},
              history |-> FALSE, metadata |-> FALSE]
    /\ SetInitState
    /\ PushInitState
    /\ SummaryInitState
    /\ HistInitState
    /\ CounterInitState
    /\ LockInitState
    /\ TextInitState
    /\ VmHistInitState

CounterSpec == CounterInit /\ [][CounterNext]_vars

\* One caller with every method of a fresh counter.
CounterSeqNext ==
    \E t \in cfg.threads :
        \/ Counter_Inc(t)
        \/ Counter_Dec(t)
        \/ Counter_Add(t)
        \/ Counter_Set(t)
        \/ Counter_Get(t)

CounterSeqInit ==
    /\ cfg = [threads |-> {1}, names |-> {}, scalars |-> {},
              params |-> {}, maxOps |-> MaxCounterOps, hists |-> {},
              hvals |-> {}, panics |-> FALSE,
              counterOps |-> {"Inc", "Dec", "Add", "Set", "Get"},
              callbacks |-> {1}, counters |-> FALSE,
              vmcalls |-> {}, vmvals |-> {},
              history |-> FALSE, metadata |-> FALSE]
    /\ SetInitState
    /\ PushInitState
    /\ SummaryInitState
    /\ HistInitState
    /\ CounterInitState
    /\ LockInitState
    /\ TextInitState
    /\ VmHistInitState

CounterSeqSpec == CounterSeqInit /\ [][CounterSeqNext]_vars

\* ---------------------------------------------------------------- mutexes

\* An Unlock that leaves the mutex locked.
UnlockedNot(l, x) == l

\* The mutexes after x.Lock() by p, which waits until x is free, and after
\* x.Unlock().
Locked(l, x, p) == [l EXCEPT ![x] = p]
Unlocked(l, x) == [l EXCEPT ![x] = "free"]

At(p, at) == proc[p].pc = at
ProcGoto(p, at, i, sm) == proc' = [proc EXCEPT ![p] = [pc |-> at, i |-> i,
                                                       sm |-> sm]]

\* p takes the mutex x when it is free and goes on at pc.
Acquire(p, x, at, i, sm) ==
    /\ locks[x] = "free"
    /\ locks' = Locked(locks, x, p)
    /\ ProcGoto(p, at, i, sm)

Release(p, x, at, i, sm) ==
    /\ locks' = Unlocked(locks, x)
    /\ ProcGoto(p, at, i, sm)

\* The summary of the k-th entry a pass marshals: the Summary and one
\* quantileValue for each summary of the set.
EntrySummary(k) == summaries[(k + 1) \div 2]

\* A call of WritePrometheus starts.
Locks_WritePrometheus ==
    /\ At("WritePrometheus", "idle")
    /\ ProcGoto("WritePrometheus", "wp_Lock", 0, 0)
    /\ UNCHANGED <<locks, summaries, swapReg, crons, nextId>>
    /\ UNCHANGED foreignToLocks

\* s.mu.Lock()
Locks_wp_Lock ==
    /\ At("WritePrometheus", "wp_Lock")
    /\ Acquire("WritePrometheus", <<"s.mu", 0>>, "wp_updateQuantiles", 1, 0)
    /\ UNCHANGED <<summaries, swapReg, crons, nextId>>
    /\ UNCHANGED foreignToLocks

\* sm.updateQuantiles() in the loop over s.summaries: sm.mu.Lock()
Locks_wp_updateQuantiles_Lock ==
    LET i == proc["WritePrometheus"].i IN
    /\ At("WritePrometheus", "wp_updateQuantiles")
    /\ i <= Len(summaries)
    /\ Acquire("WritePrometheus", <<"sm.mu", summaries[i]>>,
               "wp_updateQuantiles_locked", i, summaries[i])
    /\ UNCHANGED <<summaries, swapReg, crons, nextId>>
    /\ UNCHANGED foreignToLocks

Locks_wp_updateQuantiles_Unlock ==
    LET i == proc["WritePrometheus"].i IN
    /\ At("WritePrometheus", "wp_updateQuantiles_locked")
    /\ Release("WritePrometheus", <<"sm.mu", proc["WritePrometheus"].sm>>,
               "wp_updateQuantiles", i + 1, 0)
    /\ UNCHANGED <<summaries, swapReg, crons, nextId>>
    /\ UNCHANGED foreignToLocks

\* The end of the loop over s.summaries; the loop over s.a follows.
Locks_wp_sort ==
    /\ At("WritePrometheus", "wp_updateQuantiles")
    /\ proc["WritePrometheus"].i > Len(summaries)
    /\ ProcGoto("WritePrometheus", "wp_marshalTo", 1, 0)
    /\ UNCHANGED <<locks, summaries, swapReg, crons, nextId>>
    /\ UNCHANGED foreignToLocks

\* marshalTo of a Summary (updateQuantiles) or of a quantileValue:
\* sm.mu.Lock()
Locks_wp_marshalTo_Lock ==
    LET i == proc["WritePrometheus"].i IN
    /\ At("WritePrometheus", "wp_marshalTo")
    /\ i <= 2 * Len(summaries)
    /\ Acquire("WritePrometheus", <<"sm.mu", EntrySummary(i)>>,
               "wp_marshalTo_locked", i, EntrySummary(i))
    /\ UNCHANGED <<summaries, swapReg, crons, nextId>>
    /\ UNCHANGED foreignToLocks

Locks_wp_marshalTo_Unlock ==
    LET i == proc["WritePrometheus"].i IN
    /\ At("WritePrometheus", "wp_marshalTo_locked")
    /\ Release("WritePrometheus", <<"sm.mu", proc["WritePrometheus"].sm>>,
               "wp_marshalTo", i + 1, 0)
    /\ UNCHANGED <<summaries, swapReg, crons, nextId>>
    /\ UNCHANGED foreignToLocks

\* s.mu.Unlock() after the loop over s.a
Locks_wp_Unlock ==
    /\ At("WritePrometheus", "wp_marshalTo")
    /\ proc["WritePrometheus"].i > 2 * Len(summaries)
    /\ Release("WritePrometheus", <<"s.mu", 0>>, "idle", 0, 0)
    /\ UNCHANGED <<summaries, swapReg, crons, nextId>>
    /\ UNCHANGED foreignToLocks

\* A call of GetOrCreateSummaryExt for a name that is not registered.
Locks_GetOrCreateSummaryExt ==
    /\ At("GetOrCreateSummaryExt", "idle")
    /\ nextId <= MaxLockSummaries
    /\ ProcGoto("GetOrCreateSummaryExt", "goc_lookup", 0, nextId)
    /\ UNCHANGED <<locks, summaries, swapReg, crons, nextId>>
    /\ UNCHANGED foreignToLocks

\* The lookup, and the slow path up to registerSummary: s.mu.Lock()
Locks_goc_Lock ==
    \E at \in {"goc_lookup", "goc_slow", "goc_quantiles"} :
        /\ At("GetOrCreateSummaryExt", at)
        /\ Acquire("GetOrCreateSummaryExt", <<"s.mu", 0>>,
                   CASE at = "goc_lookup" -> "goc_lookup_locked"
                     [] at = "goc_slow" -> "goc_registerSummary"
                     [] at = "goc_quantiles" -> "goc_quantiles_locked",
                   0, proc["GetOrCreateSummaryExt"].sm)
        /\ UNCHANGED <<summaries, swapReg, crons, nextId>>
        /\ UNCHANGED foreignToLocks

\* s.mu.Unlock() after the lookup, and in registerMetric of the quantiles
Locks_goc_Unlock ==
    \E at \in {"goc_lookup_locked", "goc_quantiles_locked"} :
        /\ At("GetOrCreateSummaryExt", at)
        /\ Release("GetOrCreateSummaryExt", <<"s.mu", 0>>,
                   IF at = "goc_lookup_locked" THEN "goc_slow" ELSE "idle",
                   0, IF at = "goc_lookup_locked"
                      THEN proc["GetOrCreateSummaryExt"].sm ELSE 0)
        /\ UNCHANGED <<summaries, swapReg, crons, nextId>>
        /\ UNCHANGED foreignToLocks

\* registerSummary(sm) with s.mu held: summariesLock.Lock()
Locks_registerSummary_Lock ==
    /\ At("GetOrCreateSummaryExt", "goc_registerSummary")
    /\ Acquire("GetOrCreateSummaryExt", <<"summariesLock", 0>>,
               "goc_registerSummary_locked", 0,
               proc["GetOrCreateSummaryExt"].sm)
    /\ UNCHANGED <<summaries, swapReg, crons, nextId>>
    /\ UNCHANGED foreignToLocks

\* registerSummary: the append, the start of the swap task of the first
\* summary, summariesLock.Unlock()
Locks_registerSummary_Unlock ==
    LET sm == newSummary(proc["GetOrCreateSummaryExt"].sm,
                         defaultSummaryWindow, defaultSummaryQuantiles)
    IN
    /\ At("GetOrCreateSummaryExt", "goc_registerSummary_locked")
    /\ swapReg' = registerSummary(swapReg, sm)
    /\ crons' = startCron(crons, swapReg, sm)
    /\ Release("GetOrCreateSummaryExt", <<"summariesLock", 0>>,
               "goc_append", 0, sm.id)
    /\ UNCHANGED <<summaries, nextId>>
    /\ UNCHANGED foreignToLocks

\* s.summaries = append(s.summaries, sm); s.mu.Unlock()
Locks_goc_append ==
    /\ At("GetOrCreateSummaryExt", "goc_append")
    /\ summaries' = Append(summaries, proc["GetOrCreateSummaryExt"].sm)
    /\ nextId' = nextId + 1
    /\ Release("GetOrCreateSummaryExt", <<"s.mu", 0>>, "goc_quantiles", 0, 0)
    /\ UNCHANGED <<swapReg, crons>>
    /\ UNCHANGED foreignToLocks

\* Summary.Update of a summary that GetOrCreateSummaryExt has returned.
Locks_Update ==
    \E sm \in Range(summaries) :
        /\ At("Update", "idle")
        /\ ProcGoto("Update", "upd_Lock", 0, sm)
        /\ UNCHANGED <<locks, summaries, swapReg, crons, nextId>>
        /\ UNCHANGED foreignToLocks

Locks_Update_Lock ==
    /\ At("Update", "upd_Lock")
    /\ Acquire("Update", <<"sm.mu", proc["Update"].sm>>, "upd_locked", 0,
               proc["Update"].sm)
    /\ UNCHANGED <<summaries, swapReg, crons, nextId>>
    /\ UNCHANGED foreignToLocks

Locks_Update_Unlock ==
    /\ At("Update", "upd_locked")
    /\ Release("Update", <<"sm.mu", proc["Update"].sm>>, "idle", 0, 0)
    /\ UNCHANGED <<summaries, swapReg, crons, nextId>>
    /\ UNCHANGED foreignToLocks

\* summariesSwapCron: time.Sleep(window / 2) is over.
Locks_summariesSwapCron ==
    /\ At("summariesSwapCron", "idle")
    /\ crons[defaultSummaryWindow] > 0
    /\ ProcGoto("summariesSwapCron", "cron_Lock", 0, 0)
    /\ UNCHANGED <<locks, summaries, swapReg, crons, nextId>>
    /\ UNCHANGED foreignToLocks

\* summariesLock.Lock()
Locks_cron_Lock ==
    /\ At("summariesSwapCron", "cron_Lock")
    /\ Acquire("summariesSwapCron", <<"summariesLock", 0>>, "cron_swap", 1, 0)
    /\ UNCHANGED <<summaries, swapReg, crons, nextId>>
    /\ UNCHANGED foreignToLocks

\* The loop over summaries[window]: s.mu.Lock()
Locks_cron_swap_Lock ==
    LET i == proc["summariesSwapCron"].i
        list == swapReg[defaultSummaryWindow]
    IN
    /\ At("summariesSwapCron", "cron_swap")
    /\ i <= Len(list)
    /\ Acquire("summariesSwapCron", <<"sm.mu", list[i]>>, "cron_swap_locked",
               i, list[i])
    /\ UNCHANGED <<summaries, swapReg, crons, nextId>>
    /\ UNCHANGED foreignToLocks

\* The swap, and s.mu.Unlock()
Locks_cron_swap_Unlock ==
    /\ At("summariesSwapCron", "cron_swap_locked")
    /\ Release("summariesSwapCron", <<"sm.mu", proc["summariesSwapCron"].sm>>,
               "cron_swap", proc["summariesSwapCron"].i + 1, 0)
    /\ UNCHANGED <<summaries, swapReg, crons, nextId>>
    /\ UNCHANGED foreignToLocks

\* summariesLock.Unlock() after the loop
Locks_cron_Unlock ==
    /\ At("summariesSwapCron", "cron_swap")
    /\ proc["summariesSwapCron"].i > Len(swapReg[defaultSummaryWindow])
    /\ Release("summariesSwapCron", <<"summariesLock", 0>>, "idle", 0, 0)
    /\ UNCHANGED <<summaries, swapReg, crons, nextId>>
    /\ UNCHANGED foreignToLocks

\* The calls that start, the Lock() calls, and the steps that wait for
\* nothing.
LocksBegin ==
    \/ Locks_WritePrometheus
    \/ Locks_GetOrCreateSummaryExt
    \/ Locks_Update
    \/ Locks_summariesSwapCron

LocksLock(p) ==
    \/ p = "WritePrometheus" /\ Locks_wp_Lock
    \/ p = "WritePrometheus" /\ Locks_wp_updateQuantiles_Lock
    \/ p = "WritePrometheus" /\ Locks_wp_marshalTo_Lock
    \/ p = "GetOrCreateSummaryExt" /\ Locks_goc_Lock
    \/ p = "GetOrCreateSummaryExt" /\ Locks_registerSummary_Lock
    \/ p = "Update" /\ Locks_Update_Lock
    \/ p = "summariesSwapCron" /\ Locks_cron_Lock
    \/ p = "summariesSwapCron" /\ Locks_cron_swap_Lock

LocksStep(p) ==
    \/ p = "WritePrometheus" /\ Locks_wp_updateQuantiles_Unlock
    \/ p = "WritePrometheus" /\ Locks_wp_sort
    \/ p = "WritePrometheus" /\ Locks_wp_marshalTo_Unlock
    \/ p = "WritePrometheus" /\ Locks_wp_Unlock
    \/ p = "GetOrCreateSummaryExt" /\ Locks_goc_Unlock
    \/ p = "GetOrCreateSummaryExt" /\ Locks_registerSummary_Unlock
    \/ p = "GetOrCreateSummaryExt" /\ Locks_goc_append
    \/ p = "Update" /\ Locks_Update_Unlock
    \/ p = "summariesSwapCron" /\ Locks_cron_swap_Unlock
    \/ p = "summariesSwapCron" /\ Locks_cron_Unlock

LocksNext ==
    \/ LocksBegin
    \/ \E p \in LockProcs : LocksLock(p) \/ LocksStep(p)

LocksInit ==
    /\ cfg = [threads |-> {}, names |-> {}, scalars |-> {},
              params |-> {}, maxOps |-> 0, hists |-> {}, hvals |-> {},
              panics |-> FALSE, counterOps |-> {},
              callbacks |-> {1}, counters |-> FALSE,
              vmcalls |-> {}, vmvals |-> {},
              history |-> FALSE, metadata |-> FALSE]
    /\ SetInitState
    /\ PushInitState
    /\ SummaryInitState
    /\ HistInitState
    /\ CounterInitState
    /\ LockInitState
    /\ TextInitState
    /\ VmHistInitState

\* A goroutine that can take a step takes one in the end, and one that
\* waits for a mutex that is free again and again gets it in the end
\* (sync.Mutex hands the mutex to a waiter that has waited long).
LocksFairness ==
    \A p \in LockProcs : WF_vars(LocksStep(p)) /\ SF_vars(LocksLock(p))

LocksFairSpec == LocksInit /\ [][LocksNext]_vars /\ LocksFairness

\* ---------------------------------------------------------------- Histogram

RECURSIVE Pow10(_)
Pow10(k) == IF k <= 0 THEN 1 ELSE 10 * Pow10(k - 1)

\* The number of decimal digits of v > 0.
RECURSIVE Digits(_)
Digits(v) == IF v < 10 THEN 1 ELSE 1 + Digits(v \div 10)

\* floor(log10(v)) of v > 0 units.
floorLog10(v) == e10Min - 1 + Digits(v) - 1

\* getBucketIdx that sends a value on a boundary to the upper bucket.
getBucketIdxUpper(x) ==
    IF x.inf THEN bucketsCount - 1
    ELSE IF x.v = 0 THEN 0
    ELSE LET e10 == floorLog10(x.v)
             md == x.v \div Pow10(Digits(x.v) - 1)
         IN
         IF e10 < e10Min THEN 1
         ELSE IF e10 > e10Max THEN bucketsCount - 1
         ELSE 1 + md + 9 * (e10 - e10Min)

\* getBucketIdx(v) for v >= 0: bucket 0 for zero, the last bucket for +Inf
\* and for what lies above 10^(e10Max+1), the first bucket for what lies
\* below the minimum decade; else the decade e10 = floor(log10(v)) and the
\* first digit md of v, less one when v is on the boundary md * 10^e10, which
\* belongs to the lower bucket.
getBucketIdx(x) ==
    IF x.inf THEN bucketsCount - 1
    ELSE IF x.v = 0 THEN 0
    ELSE LET e10 == floorLog10(x.v)
             p10 == Pow10(Digits(x.v) - 1)
             mf == x.v \div p10
             md == IF x.v = mf * p10 THEN mf - 1 ELSE mf
         IN
         IF e10 < e10Min THEN 1
         ELSE IF e10 > e10Max + 1 \/ (e10 = e10Max + 1 /\ md > 0)
         THEN bucketsCount - 1
         ELSE 1 + md + 9 * (e10 - e10Min)

\* getRangeEndFromBucketIdx(idx): 0 for the zero bucket, +Inf for the last
\* one, else md * 10^e10 of the bucket's decade and digit.
getRangeEndFromBucketIdx(idx) ==
    IF idx = 0 THEN VmVal(0)
    ELSE IF idx = bucketsCount - 1 THEN VmInf
    ELSE VmVal((1 + ((idx - 1) % 9)) * Pow10(1 + ((idx - 1) \div 9)))

\* The values given to getBucketIdx: every whole number of units up to
\* MaxBucketVal, which lies above 10^(e10Max+1), and +Inf.
BucketValues == {VmVal(v) : v \in 0..MaxBucketVal} \cup {VmInf}

getBucketIdx_call ==
    /\ bk.idx = -1
    /\ bk' = [bk EXCEPT !.idx = getBucketIdx(bk.x)]
    /\ UNCHANGED <<vh, vmu, vp, vg>>
    /\ UNCHANGED foreignToVm

BucketInit ==
    /\ cfg = [threads |-> {}, names |-> {}, scalars |-> {},
              params |-> {}, maxOps |-> 0, hists |-> {}, hvals |-> {},
              panics |-> FALSE, counterOps |-> {},
              callbacks |-> {}, counters |-> FALSE,
              vmcalls |-> {}, vmvals |-> {},
              history |-> FALSE, metadata |-> FALSE]
    /\ SetInitState
    /\ PushInitState
    /\ SummaryInitState
    /\ HistInitState
    /\ CounterInitState
    /\ LockInitState
    /\ TextInitState
    /\ VmObjectInitState
    /\ bk \in {[x |-> x, idx |-> -1] : x \in BucketValues}

BucketSpec == BucketInit /\ [][getBucketIdx_call]_vars

\* A caller starts a call on the Histogram.
VmBegin(t, call) ==
    /\ t \in cfg.threads
    /\ call \in cfg.vmcalls
    /\ vp[t].pc = "idle"
    /\ vg.calls < MaxVmCalls

\* The caller goes on to the position at.
VmGoto(t, at) == [vp EXCEPT ![t].pc = at]

\* Update(v): NaN is ignored and a negative value panics
\* (TestHistogramUpdateNegativeValue); else the index of the bucket.
Histogram_Update(t) ==
    \E x \in cfg.vmvals :
        /\ VmBegin(t, "Update")
        /\ vp' = [vp EXCEPT ![t] =
                 IF x.nan
                 THEN [NoVmCall EXCEPT !.call = "Update", !.x = x,
                                       !.ret = "ok"]
                 ELSE IF x.v < 0
                 THEN [NoVmCall EXCEPT !.call = "Update", !.x = x,
                                       !.ret = "panic"]
                 ELSE [NoVmCall EXCEPT !.call = "Update", !.x = x,
                                       !.pc = "Update_bucket",
                                       !.idx = getBucketIdx(x)]]
        /\ vg' = [vg EXCEPT !.calls = @ + 1,
                            !.updates = IF x.nan \/ x.v < 0 THEN @ ELSE @ + 1]
        /\ UNCHANGED <<bk, vh, vmu>>
        /\ UNCHANGED foreignToVm

\* The atomic add to the counter of the bucket; no lock is taken.
Histogram_Update_bucket(t) ==
    /\ vp[t].pc = "Update_bucket"
    /\ vh' = [vh EXCEPT !.buckets[vp[t].idx] = AddUint64(@, 1)]
    /\ vp' = VmGoto(t, "Update_sum")
    /\ UNCHANGED <<bk, vmu, vg>>
    /\ UNCHANGED foreignToVm

\* The value is added to the running total.
Histogram_Update_sum(t) ==
    /\ vp[t].pc = "Update_sum"
    /\ vh' = [vh EXCEPT !.sum = @ + vp[t].x.v]
    /\ vp' = VmGoto(t, "Update_count")
    /\ UNCHANGED <<bk, vmu, vg>>
    /\ UNCHANGED foreignToVm

\* The update is counted, and the call returns.
Histogram_Update_count(t) ==
    /\ vp[t].pc = "Update_count"
    /\ vh' = [vh EXCEPT !.count = AddUint64(@, 1)]
    /\ vp' = [vp EXCEPT ![t].pc = "idle", ![t].ret = "ok"]
    /\ vg' = [vg EXCEPT !.accepted = Append(@, vp[t].x.v),
                        !.finished = @ + 1]
    /\ UNCHANGED <<bk, vmu>>
    /\ UNCHANGED foreignToVm

\* Reset()
Histogram_Reset(t) ==
    /\ VmBegin(t, "Reset")
    /\ vp' = [vp EXCEPT ![t] = [NoVmCall EXCEPT !.call = "Reset",
                                               !.pc = "Reset_lock"]]
    /\ vg' = [vg EXCEPT !.calls = @ + 1]
    /\ UNCHANGED <<bk, vh, vmu>>
    /\ UNCHANGED foreignToVm

\* Reset takes the lock of the histogram.
Histogram_Reset_lock(t) ==
    /\ vp[t].pc = "Reset_lock"
    /\ Lock(vmu)
    /\ vmu' = t
    /\ vp' = VmGoto(t, "Reset_buckets")
    /\ UNCHANGED <<bk, vh, vg>>
    /\ UNCHANGED foreignToVm

\* Reset zeroes every bucket,
Histogram_Reset_buckets(t) ==
    /\ vp[t].pc = "Reset_buckets"
    /\ vh' = [vh EXCEPT !.buckets = [i \in DOMAIN @ |-> 0]]
    /\ vg' = [vg EXCEPT !.resets.buckets = @ + 1]
    /\ vp' = VmGoto(t, "Reset_sum")
    /\ UNCHANGED <<bk, vmu>>
    /\ UNCHANGED foreignToVm

\* then _sum,
Histogram_Reset_sum(t) ==
    /\ vp[t].pc = "Reset_sum"
    /\ vh' = [vh EXCEPT !.sum = 0]
    /\ vg' = [vg EXCEPT !.resets.sum = @ + 1]
    /\ vp' = VmGoto(t, "Reset_count")
    /\ UNCHANGED <<bk, vmu>>
    /\ UNCHANGED foreignToVm

\* then _count, and gives the lock back.
Histogram_Reset_count(t) ==
    /\ vp[t].pc = "Reset_count"
    /\ vh' = [vh EXCEPT !.count = 0]
    /\ vg' = [vg EXCEPT !.resets.count = @ + 1, !.accepted = <<>>]
    /\ vmu' = 0
    /\ vp' = [vp EXCEPT ![t].pc = "idle", ![t].ret = "ok"]
    /\ UNCHANGED bk
    /\ UNCHANGED foreignToVm

\* marshalTo(prefix, w)
Histogram_marshalTo(t) ==
    /\ VmBegin(t, "marshalTo")
    /\ vp' = [vp EXCEPT ![t] = [NoVmCall EXCEPT !.call = "marshalTo",
                                               !.pc = "marshalTo_lock"]]
    /\ vg' = [vg EXCEPT !.calls = @ + 1]
    /\ UNCHANGED <<bk, vh, vmu>>
    /\ UNCHANGED foreignToVm

\* The reader takes the lock of the histogram.
Histogram_marshalTo_lock(t) ==
    /\ vp[t].pc = "marshalTo_lock"
    /\ Lock(vmu)
    /\ vmu' = t
    /\ vp' = [vp EXCEPT ![t].pc = "marshalTo_buckets",
                        ![t].quiet = vg.updates = vg.finished,
                        ![t].idx = vg.updates]
    /\ UNCHANGED <<bk, vh, vg>>
    /\ UNCHANGED foreignToVm

\* The reader visits the buckets,
Histogram_marshalTo_buckets(t) ==
    /\ vp[t].pc = "marshalTo_buckets"
    /\ vp' = [vp EXCEPT ![t].pc = "marshalTo_sum",
                        ![t].read = [buckets |-> vh.buckets,
                                     cleared |-> <<vg.resets.buckets>>]]
    /\ UNCHANGED <<bk, vh, vmu, vg>>
    /\ UNCHANGED foreignToVm

\* The _bucket lines of the buckets with a count, in ascending order, each
\* with its range (the range ends of the bucket before and of its own),
\* then _sum and _count; nothing when the count is zero.
vmLines(buckets, sum, count) ==
    IF count = 0 THEN <<>>
    ELSE LET Nonzero == {i \in DOMAIN buckets : buckets[i] # 0}
             Rank(i) == Cardinality({j \in Nonzero : j < i}) + 1
             Line(k) == LET i == CHOOSE j \in Nonzero : Rank(j) = k IN
                        [line |-> "bucket",
                         lo |-> getRangeEndFromBucketIdx(
                                    IF i = 0 THEN 0 ELSE i - 1),
                         hi |-> getRangeEndFromBucketIdx(i),
                         n |-> buckets[i]]
         IN [k \in 1..Cardinality(Nonzero) |-> Line(k)]
            \o <<[line |-> "sum", n |-> sum], [line |-> "count", n |-> count]>>

\* then reads _sum and _count, gives the lock back and writes the lines.
Histogram_marshalTo_sum(t) ==
    /\ vp[t].pc = "marshalTo_sum"
    /\ vmu' = 0
    /\ vp' = [vp EXCEPT
                 ![t].pc = "idle",
                 ![t].ret = "ok",
                 ![t].quiet = @ /\ vg.updates = vp[t].idx,
                 ![t].idx = 0,
                 ![t].read = [buckets |-> @.buckets, sum |-> vh.sum,
                              count |-> vh.count,
                              accepted |-> vg.accepted,
                              cleared |-> @.cleared \o <<vg.resets.sum,
                                                        vg.resets.count>>],
                 ![t].lines = vmLines(vp[t].read.buckets, vh.sum, vh.count)]
    /\ UNCHANGED <<bk, vh, vg>>
    /\ UNCHANGED foreignToVm

\* Callers that update, reset and render one histogram at once.
VmNext ==
    \E t \in Threads :
        \/ Histogram_Update(t)
        \/ Histogram_Update_bucket(t)
        \/ Histogram_Update_sum(t)
        \/ Histogram_Update_count(t)
        \/ Histogram_Reset(t)
        \/ Histogram_Reset_lock(t)
        \/ Histogram_Reset_buckets(t)
        \/ Histogram_Reset_sum(t)
        \/ Histogram_Reset_count(t)
        \/ Histogram_marshalTo(t)
        \/ Histogram_marshalTo_lock(t)
        \/ Histogram_marshalTo_buckets(t)
        \/ Histogram_marshalTo_sum(t)

\* NaN, a negative value, zero, a value inside a bucket and the boundary
\* above it.
VmInit ==
    /\ cfg = [threads |-> Threads, names |-> {}, scalars |-> {},
              params |-> {}, maxOps |-> 0, hists |-> {}, hvals |-> {},
              panics |-> FALSE, counterOps |-> {},
              callbacks |-> {}, counters |-> FALSE,
              vmcalls |-> {"Update", "Reset", "marshalTo"},
              vmvals |-> {VmNaN, VmVal(-1), VmVal(15)},
              history |-> FALSE, metadata |-> FALSE]
    /\ SetInitState
    /\ PushInitState
    /\ SummaryInitState
    /\ HistInitState
    /\ CounterInitState
    /\ LockInitState
    /\ TextInitState
    /\ VmHistInitState

VmSpec == VmInit /\ [][VmNext]_vars

\* Callers that update and render one histogram at once.
VmUpdateNext ==
    \E t \in Threads :
        \/ Histogram_Update(t)
        \/ Histogram_Update_bucket(t)
        \/ Histogram_Update_sum(t)
        \/ Histogram_Update_count(t)
        \/ Histogram_marshalTo(t)
        \/ Histogram_marshalTo_lock(t)
        \/ Histogram_marshalTo_buckets(t)
        \/ Histogram_marshalTo_sum(t)

VmUpdateInit ==
    /\ cfg = [threads |-> Threads, names |-> {}, scalars |-> {},
              params |-> {}, maxOps |-> 0, hists |-> {}, hvals |-> {},
              panics |-> FALSE, counterOps |-> {},
              callbacks |-> {}, counters |-> FALSE,
              vmcalls |-> {"Update", "marshalTo"},
              vmvals |-> {VmNaN, VmVal(0), VmVal(15), VmVal(20)},
              history |-> FALSE, metadata |-> FALSE]
    /\ SetInitState
    /\ PushInitState
    /\ SummaryInitState
    /\ HistInitState
    /\ CounterInitState
    /\ LockInitState
    /\ TextInitState
    /\ VmHistInitState

VmUpdateSpec == VmUpdateInit /\ [][VmUpdateNext]_vars

\* ------------------------------------------------- names and exposition text

\* A string is the sequence of its bytes, each a string of length one.
\* bytes.IndexByte and bytes.LastIndexByte, counted from 1: 0 when the byte
\* is missing.
IndexByte(b, c) ==
    IF \E i \in 1..Len(b) : b[i] = c
    THEN CHOOSE i \in 1..Len(b) : b[i] = c /\ \A j \in 1..(i - 1) : b[j] # c
    ELSE 0

LastIndexByte(b, c) ==
    IF \E i \in 1..Len(b) : b[i] = c
    THEN CHOOSE i \in 1..Len(b) : b[i] = c /\ \A j \in (i + 1)..Len(b) : b[j] # c
    ELSE 0

\* What the calls on names and texts leave alone.
foreignToText == <<vmVars, setVars, callerVars, histVars, actor, pushVars,
                   smVars, phVars, scrapeVars, counterVars, lockVars>>

\* No Set, no push and no histogram is in use.
TextObjectInitState ==
    /\ cfg = [threads |-> {}, names |-> {}, scalars |-> {},
              params |-> {}, maxOps |-> 0, hists |-> {}, hvals |-> {},
              panics |-> FALSE, counterOps |-> {},
              callbacks |-> {}, counters |-> FALSE,
              vmcalls |-> {}, vmvals |-> {},
              history |-> FALSE, metadata |-> FALSE]
    /\ SetInitState
    /\ PushInitState
    /\ SummaryInitState
    /\ HistInitState
    /\ CounterInitState
    /\ LockInitState
    /\ VmHistInitState

\* The label key="value".
Label(key, value) == <<key, "=", "\"">> \o value \o <<"\"">>

\* Labels whose values hold a brace and a comma.
TextLabels ==
    {Label("b", <<>>), Label("b", <<"}">>), Label("c", <<"a", ",">>)}

LabelLists == UNION {[1..n -> TextLabels] : n \in 0..MaxLabels}

RECURSIVE JoinLabels(_)
\* The labels of a brace group, a comma between two of them.
JoinLabels(labels) ==
    IF labels = <<>> THEN <<>>
    ELSE IF Len(labels) = 1 THEN Head(labels)
    ELSE Head(labels) \o <<",">> \o JoinLabels(Tail(labels))

\* A name by its parts: the base, whether it has a brace group, and the
\* labels of the group.
NameParts(base, braces, labels) ==
    [base |-> base, braces |-> braces, labels |-> labels]

\* The string of a name.
NameText(n) ==
    n.base \o (IF n.braces THEN <<"{">> \o JoinLabels(n.labels) \o <<"}">>
                ELSE <<>>)

\* The valid names: bare, with an empty brace group, and with labels.
ValidNames ==
    {NameParts(base, FALSE, <<>>) : base \in {<<"a">>, <<"a", "a">>}}
    \cup {NameParts(base, TRUE, labels) :
            base \in {<<"a">>, <<"a", "a">>}, labels \in LabelLists}

\* The MetricName grammar as an automaton over the bytes of the string:
\* the base, then optionally a brace group of key="value" labels with a
\* comma between two of them. With spaced, spaces may follow the comma.
MetricNameStep(q, c, spaced) ==
    CASE q = "start" /\ c \in {"a", "b", "c"} -> "base"
      [] q = "base" /\ c \in {"a", "b", "c"} -> "base"
      [] q = "base" /\ c = "{" -> "open"
      [] q = "open" /\ c = "}" -> "end"
      [] q \in {"open", "comma", "key"} /\ c \in {"a", "b", "c"} -> "key"
      [] q = "key" /\ c = "=" -> "eq"
      [] q = "eq" /\ c = "\"" -> "value"
      [] q = "value" /\ c # "\"" -> "value"
      [] q = "value" /\ c = "\"" -> "closed"
      [] q = "closed" /\ c = "," -> "comma"
      [] q = "closed" /\ c = "}" -> "end"
      [] q = "comma" /\ c = " " /\ spaced -> "comma"
      [] OTHER -> "reject"

RECURSIVE MetricNameRun(_, _, _)
MetricNameRun(q, b, spaced) ==
    IF b = <<>> THEN q
    ELSE MetricNameRun(MetricNameStep(q, Head(b), spaced), Tail(b), spaced)

\* The string is a MetricName with no space outside its quoted values.
IsMetricName(b) == MetricNameRun("start", b, FALSE) \in {"base", "end"}

\* addTag(name, tag): name{tag} for a name that does not end in a brace,
\* else the name with ,tag put before its last byte.
addTag_text(name, tag) ==
    IF Len(name) = 0 \/ name[Len(name)] # "}"
    THEN name \o <<"{">> \o tag \o <<"}">>
    ELSE SubSeq(name, 1, Len(name) - 1) \o <<",">> \o tag \o <<"}">>

addTag_call ==
    /\ txt.call = "addTag"
    /\ ~txt.done
    /\ txt' = [txt EXCEPT !.res = addTag_text(NameText(txt.name), txt.tag),
                          !.done = TRUE]
    /\ UNCHANGED <<cfg, foreignToText>>

AddTagInit ==
    /\ TextObjectInitState
    /\ txt \in {[call |-> "addTag", name |-> n, tag |-> t, res |-> <<>>,
                  done |-> FALSE] : n \in ValidNames, t \in TextLabels}

AddTagSpec == AddTagInit /\ [][addTag_call]_vars

\* bytes.TrimSpace for the white space of the lines: space and tab.
RECURSIVE TrimLeft(_)
TrimLeft(b) ==
    IF b # <<>> /\ Head(b) \in {" ", "\t"} THEN TrimLeft(Tail(b)) ELSE b

RECURSIVE TrimRight(_)
TrimRight(b) ==
    IF b # <<>> /\ b[Len(b)] \in {" ", "\t"}
    THEN TrimRight(SubSeq(b, 1, Len(b) - 1))
    ELSE b

TrimSpace(b) == TrimRight(TrimLeft(b))

HasPrefix(b, prefix) ==
    Len(b) >= Len(prefix) /\ SubSeq(b, 1, Len(prefix)) = prefix

bashBytes == <<"#">>

RECURSIVE addExtraLabels(_, _, _)
\* addExtraLabels(dst, src, extraLabels): line by line, an empty line is
\* skipped, a comment is copied, a line with a brace gets the labels and a
\* comma after its first brace, a line with none gets {labels} before its
\* last space and panics when it has no space.
addExtraLabels(dst, src, extraLabels) ==
    IF Len(src) = 0 THEN [dst |-> dst, panic |-> FALSE]
    ELSE
        LET n == IndexByte(src, "\n")
            line == TrimSpace(IF n > 0 THEN SubSeq(src, 1, n - 1) ELSE src)
            rest == IF n > 0 THEN SubSeq(src, n + 1, Len(src)) ELSE <<>>
            brace == IndexByte(line, "{")
            space == LastIndexByte(line, " ")
        IN  IF Len(line) = 0
            THEN addExtraLabels(dst, rest, extraLabels)
            ELSE IF HasPrefix(line, bashBytes)
            THEN addExtraLabels(dst \o line \o <<"\n">>, rest, extraLabels)
            ELSE IF brace > 0
            THEN addExtraLabels(dst \o SubSeq(line, 1, brace) \o extraLabels
                                    \o <<",">>
                                    \o SubSeq(line, brace + 1, Len(line))
                                    \o <<"\n">>,
                                rest, extraLabels)
            ELSE IF space = 0
            THEN [dst |-> dst, panic |-> TRUE]
            ELSE addExtraLabels(dst \o SubSeq(line, 1, space - 1) \o <<"{">>
                                    \o extraLabels \o <<"}">>
                                    \o SubSeq(line, space, Len(line))
                                    \o <<"\n">>,
                                rest, extraLabels)

\* The lines of an exposition text by their parts: a blank line, a comment,
\* or a sample of a name with its value and, optionally, its timestamp;
\* pad puts white space around the line.
TextLine(kind, pad, comment, name, timestamp) ==
    [kind |-> kind, pad |-> pad, comment |-> comment, name |-> name,
     timestamp |-> timestamp]

SampleNames ==
    {NameParts(<<"a">>, FALSE, <<>>)}
    \cup {NameParts(<<"a">>, TRUE, <<l>>) : l \in TextLabels}

TextLines ==
    {TextLine("blank", pad, <<>>, NameParts(<<>>, FALSE, <<>>), FALSE) :
        pad \in BOOLEAN}
    \cup {TextLine("comment", FALSE, c, NameParts(<<>>, FALSE, <<>>), FALSE) :
            c \in {<<"#", " ", "a">>, <<"#", "a", "{", "}", " ", "1">>}}
    \cup {TextLine("sample", pad, <<>>, n, ts) :
            pad \in BOOLEAN, n \in SampleNames, ts \in BOOLEAN}

Value == <<"1">>
Timestamp == <<"7">>

\* The bytes of a line, without its line feed.
LineText(l) ==
    CASE l.kind = "blank" -> IF l.pad THEN <<" ">> ELSE <<>>
      [] l.kind = "comment" -> l.comment
      [] l.kind = "sample" ->
            (IF l.pad THEN <<"\t", " ">> ELSE <<>>)
            \o NameText(l.name) \o <<" ">> \o Value
            \o (IF l.timestamp THEN <<" ">> \o Timestamp ELSE <<>>)
            \o (IF l.pad THEN <<" ">> ELSE <<>>)

RECURSIVE ExpositionText(_, _)
\* The text of the lines: a line feed between two lines and, with final,
\* after the last.
ExpositionText(lines, final) ==
    IF lines = <<>> THEN <<>>
    ELSE IF Len(lines) = 1
    THEN LineText(Head(lines)) \o (IF final THEN <<"\n">> ELSE <<>>)
    ELSE LineText(Head(lines)) \o <<"\n">> \o ExpositionText(Tail(lines), final)

ExtraLabels ==
    {Label("x", <<"y">>), Label("x", <<"y">>) \o <<",">> \o Label("z", <<>>)}

TextLineLists == UNION {[1..n -> TextLines] : n \in 0..MaxLines}

addExtraLabels_call ==
    /\ txt.call = "addExtraLabels"
    /\ ~txt.done
    /\ LET r == addExtraLabels(<<>>, ExpositionText(txt.lines, txt.final),
                               txt.extraLabels)
       IN  txt' = [txt EXCEPT !.res = r.dst, !.panic = r.panic, !.done = TRUE]
    /\ UNCHANGED <<cfg, foreignToText>>

ExtraLabelsInit ==
    /\ TextObjectInitState
    /\ txt \in {[call |-> "addExtraLabels", lines |-> ls, final |-> f,
                  extraLabels |-> e, res |-> <<>>, panic |-> FALSE,
                  done |-> FALSE] :
                    ls \in TextLineLists, f \in BOOLEAN, e \in ExtraLabels}

ExtraLabelsSpec == ExtraLabelsInit /\ [][addExtraLabels_call]_vars

\* identRegexp over the bytes of the names here: letters, at least one.
validateIdent(b) ==
    b # <<>> /\ \A i \in 1..Len(b) : b[i] \in {"a", "b", "c"}

\* skipSpace that skips nothing.
skipSpaceNone(b) == b

RECURSIVE skipSpace(_)
\* The string without the spaces it starts with.
skipSpace(b) == IF b # <<>> /\ Head(b) = " " THEN skipSpace(Tail(b)) ELSE b

RECURSIVE validateTagsLoop(_)
\* One label of the brace group and those after it: an identifier, =, a
\* quoted value, and then the end of the group or a comma, the spaces
\* after which are skipped, and the next label.
validateTagsLoop(b) ==
    LET n == IndexByte(b, "=")
        afterEq == SubSeq(b, n + 1, Len(b))
        value == Tail(afterEq)
        q == IndexByte(value, "\"")
        afterValue == SubSeq(value, q + 1, Len(value))
    IN  /\ n > 0
        /\ validateIdent(SubSeq(b, 1, n - 1))
        /\ afterEq # <<>>
        /\ Head(afterEq) = "\""
        /\ q > 0
        /\ \/ afterValue = <<>>
           \/ /\ Head(afterValue) = ","
              /\ validateTagsLoop(skipSpace(Tail(afterValue)))

\* The labels between the braces: none, or a list of labels.
validateTags(b) == b = <<>> \/ validateTagsLoop(b)

\* Validate(name): the name is not empty and has no line feed; it is an
\* identifier, or an identifier and, from its first brace to a closing
\* brace at its end, a valid brace group.
Validate(b) ==
    LET n == IndexByte(b, "{")
        group == SubSeq(b, n + 1, Len(b))
    IN  /\ b # <<>>
        /\ IndexByte(b, "\n") = 0
        /\ IF n = 0 THEN validateIdent(b)
           ELSE /\ validateIdent(SubSeq(b, 1, n - 1))
                /\ group # <<>>
                /\ group[Len(group)] = "}"
                /\ validateTags(SubSeq(group, 1, Len(group) - 1))

\* The strings Validate is given: every string of up to MaxRaw bytes, alone
\* and between the start and the end of a name with labels.
RawBytes == {"a", " ", "{", "}", "=", "\"", ","}
RawStrings == UNION {[1..n -> RawBytes] : n \in 0..MaxRaw}
NameStarts ==
    {<<>>, <<"a", "{">> \o Label("b", <<>>),
     <<"a", "{">> \o Label("b", <<>>) \o <<",">>}
NameEnds == {<<>>, Label("b", <<>>) \o <<"}">>}

Validate_call ==
    /\ txt.call = "Validate"
    /\ ~txt.done
    /\ txt' = [txt EXCEPT !.ok = Validate(txt.name), !.done = TRUE]
    /\ UNCHANGED <<cfg, foreignToText>>

ValidateInit ==
    /\ TextObjectInitState
    /\ txt \in {[call |-> "Validate", name |-> start \o raw \o end,
                  ok |-> FALSE, done |-> FALSE] :
                    start \in NameStarts, raw \in RawStrings, end \in NameEnds}

ValidateSpec == ValidateInit /\ [][Validate_call]_vars

\* ------------------------------------------------------- Set: properties

Idle(t, call) == pc[t] = "idle" /\ op[t].call = call

\* The step is the start of a call of t.
Starts(t, call) ==
    /\ actor' = t
    /\ opsDone' = opsDone + 1
    /\ op'[t].call = call

StrictlyAscending(ns) ==
    \A i \in 1..Len(ns), j \in 1..Len(ns) : i < j => NameLess(ns[i], ns[j])

\* C1: with no unregistration, every GetOrCreate* call that has returned
\* for a name returned the one instance the map binds to the name, and the
\* list holds exactly one entry for the name; so all the calls for a name,
\* however they interleave, return the same instance.
C1_SameInstance ==
    unregs = 0 =>
        \A t \in Threads :
            (Idle(t, "GetOrCreate") /\ ret[t].tag = "metric") =>
                /\ m[op[t].name].metric.id = ret[t].v
                /\ CountName(a, op[t].name) = 1

\* Two callers raced through the slow path of GetOrCreateSummaryExt for
\* one name (each appended its summary to s.summaries) and both returned.
C1_Witness ==
    /\ unregs = 0
    /\ Idle(1, "GetOrCreate") /\ Idle(2, "GetOrCreate")
    /\ op[1].name = op[2].name
    /\ op[1].variant = "Summary" /\ op[2].variant = "Summary"
    /\ ret[1].tag = "metric" /\ ret[1] = ret[2]
    /\ Len(summaries) = 2

\* C2: a New* call for a name that is registered, under whatever variant,
\* panics and leaves the map, the list and the summaries as they were, the
\* name still bound to the metric registered first.
C2_DuplicateNewPanics ==
    [][\A t \in Threads :
          (Starts(t, "New") /\ m[op'[t].name] # NilNM) =>
              /\ ret'[t] = RetPanic
              /\ pc'[t] = "idle"
              /\ m' = m /\ a' = a /\ summaries' = summaries
              /\ swapReg' = swapReg /\ crons' = crons]_vars

\* A New* call has panicked on a valid name that is registered under
\* another variant.
C2_Witness ==
    \E t \in Threads :
        /\ Idle(t, "New") /\ ret[t] = RetPanic
        /\ validateMetric(op[t].name)
        /\ m[op[t].name] # NilNM
        /\ m[op[t].name].metric.kind \notin {op[t].variant, "quantileValue"}
        /\ CountName(a, op[t].name) = 1

C6_Unregister ==
    [][\A t \in Threads :
          Starts(t, "UnregisterMetric") =>
              LET n == op'[t].name
                  x == m[n] IN
              /\ ret'[t] = RetBool(x # NilNM)
              /\ pc'[t] = "idle"
              /\ m'[n] = NilNM
              /\ n \notin NamesOf(a')
              /\ \A i \in 1..Len(x.metric.quantiles) :
                    LET qn == addTag(n, x.metric.quantiles[i]) IN
                    m'[qn] = NilNM /\ qn \notin NamesOf(a')]_vars

\* UnregisterMetric has returned true for a summary whose quantile
\* sub-metrics were registered.
C6_Witness ==
    \E t \in Threads :
        /\ Idle(t, "UnregisterMetric") /\ ret[t] = RetBool(TRUE)
        /\ removed[t].metric.kind = "Summary"
        /\ Len(removed[t].metric.quantiles) = 2
        /\ nextId > removed[t].metric.id + 2

C8_NeverPanics == \A t \in Threads : ret[t] # RetPanic

Mismatch(o, x) ==
    \/ x.kind # o.variant
    \/ o.variant = "Summary" /\ x.window # o.window
    \/ o.variant = "Summary" /\ x.quantiles # o.quantiles

\* C9: a GetOrCreate* call for a name that is registered under another
\* variant, or as a summary with another window or other quantiles, panics
\* and changes nothing of the Set.
C9_MismatchPanics ==
    [][\A t \in Threads :
          (/\ Starts(t, "GetOrCreate")
           /\ m[op'[t].name] # NilNM
           /\ Mismatch(op'[t], m[op'[t].name].metric)) =>
              /\ ret'[t] = RetPanic
              /\ pc'[t] = "idle"
              /\ setVars' = setVars]_vars

\* GetOrCreateSummaryExt has panicked on a summary registered with another
\* window and the same quantiles.
C9_Witness ==
    \E t \in Threads :
        /\ Idle(t, "GetOrCreate") /\ ret[t] = RetPanic
        /\ op[t].variant = "Summary"
        /\ m[op[t].name].metric.kind = "Summary"
        /\ m[op[t].name].metric.window # op[t].window
        /\ m[op[t].name].metric.quantiles = op[t].quantiles

\* ------------------------------------------------------ push: properties

Returned(c) ==
    /\ cl[c].pc = "idle"
    /\ cl[c].call \in {"Close", "SetClose"}
    /\ cl[c].ret = "nil"

\* C4: when Close() or Set.Close() has returned, the push goroutine of
\* every target the call closed has ended, which it does only after a push
\* that began with a receive from the closed channel got a 2xx response,
\* and the value that push delivered is no older than the value the
\* metrics had when the call started.
C4_CloseDrains ==
    \A c \in Threads :
        Returned(c) =>
            \A i \in cl[c].closed :
                /\ task[i].closed
                /\ task[i].pc = "done"
                /\ ~task[i].ok
                /\ task[i].delivered >= cl[c].val

\* Close() has returned after it closed two targets, one of which failed
\* a push before it delivered the last one; the metrics had been written.
C4_Witness ==
    \E c \in Threads :
        /\ Returned(c) /\ cl[c].call = "Close"
        /\ Cardinality(cl[c].closed) = 2
        /\ cl[c].val > 0
        /\ \E i \in cl[c].closed : task[i].failed

\* C5: every call of Close() or Set.Close() returns in the end.
C5_CloseReturns ==
    \A c \in Threads :
        (cl[c].call \in {"Close", "SetClose"} /\ cl[c].pc # "idle")
            ~> (cl[c].pc = "idle" /\ cl[c].ret = "nil")

\* --------------------------------------------------- Summary: properties

\* The values passed to Update of s before which fewer than k swaps of s
\* have passed.
Recent(s, k) ==
    {u \in 1..Len(upd) : upd[u].sm = s /\ sums[s].swaps - upd[u].at < k}

\* A refresh of the quantiles of s that saw no value writes no line.
NoLineWhenEmpty(s) ==
    (Recent(s, 2) = {} /\ sums[s].fresh) =>
        /\ sums[s].lines = {}
        /\ \A i \in DOMAIN sums[s].quantileValues :
               sums[s].quantileValues[i] = NaN

\* C10 as stated: both reservoirs hold every value passed to Update,
\* `next` until the first and `current` until the second swap after it.
C10_StoresEveryValue ==
    \A s \in DOMAIN sums :
        /\ sums[s].curr = Recent(s, 2)
        /\ sums[s].next = Recent(s, 1)
        /\ NoLineWhenEmpty(s)

\* C10: a reservoir holds only values passed to Update since its last
\* reset: `next` those since the last swap, `current` those since the swap
\* before it, so no value is in a reservoir after the second swap that
\* follows it; a reservoir that was passed no more values than it can hold
\* holds them all; and once two swaps have passed with no update `current`
\* is empty and a refresh of the quantiles writes no quantile line.
C10_WindowRetention ==
    \A s \in DOMAIN sums :
        /\ sums[s].curr \subseteq Recent(s, 2)
        /\ sums[s].next \subseteq Recent(s, 1)
        /\ Cardinality(Recent(s, 2)) <= ReservoirCap =>
               sums[s].curr = Recent(s, 2)
        /\ Cardinality(Recent(s, 1)) <= ReservoirCap =>
               sums[s].next = Recent(s, 1)
        /\ Recent(s, 2) = {} => sums[s].curr = {}
        /\ NoLineWhenEmpty(s)

\* A summary was passed more values than a reservoir holds, two swaps
\* have passed since, and its quantile values were refreshed and marshalled
\* without a line.
C10_Witness ==
    \E s \in DOMAIN sums :
        /\ Cardinality({u \in 1..Len(upd) : upd[u].sm = s}) > ReservoirCap
        /\ Recent(s, 2) = {}
        /\ sums[s].curr = {}
        /\ sums[s].fresh
        /\ sums[s].marshalled = DOMAIN sums[s].quantileValues
        /\ sums[s].lines = {}

\* C11: no window has more than one swap task, whatever summaries have
\* been registered and unregistered.
C11_OneSwapTask == \A w \in Windows : crons[w] <= 1


\* ---------------------------------------- PrometheusHistogram: properties

\* The number of observations of obs that are at most ub, and their sum.
RECURSIVE ObservedUpTo(_, _)
ObservedUpTo(obs, ub) ==
    IF ub < 0 THEN 0
    ELSE (IF ub <= MaxHistVal THEN obs.vals[ub] ELSE 0)
         + ObservedUpTo(obs, ub - 1)

RECURSIVE SumObserved(_, _)
SumObserved(obs, ub) ==
    IF ub < 0 THEN 0 ELSE ub * obs.vals[ub] + SumObserved(obs, ub - 1)

Observed(obs) == ObservedUpTo(obs, MaxHistVal)

\* The caller's last call was a marshalTo, and it has returned.
Rendered(t) == hpc[t] = "idle" /\ hop[t].call = "marshalTo"

\* The lines are the rendering of a histogram of the bounds ub that holds
\* exactly the observations obs.
RendersObservations(lines, ub, obs) ==
    LET n == Len(ub) IN
    IF Observed(obs) = 0 THEN lines = <<>>
    ELSE /\ Len(lines) = n + 3
         /\ \A i \in 1..n :
                lines[i] = BucketLine(ub[i], ObservedUpTo(obs, ub[i]))
         /\ lines[n + 1] = InfLine(Observed(obs))
         /\ lines[n + 2] = SumLine(SumObserved(obs, MaxHistVal))
         /\ lines[n + 3] = CountLine(Observed(obs))

\* C12: a rendering concurrent with Update and Reset shows the histogram
\* as it was between two whole operations: the le="+Inf" line equals the
\* _count line, the largest finite cumulative count is at most _count, and
\* _sum is the sum of exactly the values counted, those accepted before
\* marshalTo took the mutex.
C12_RenderIsSnapshot ==
    \A t \in Threads :
        Rendered(t) =>
            /\ RendersObservations(hw[t], HistBounds, hsnap[t])
            /\ hw[t] # <<>> =>
                   LET n == Len(HistBounds) IN
                   /\ hw[t][n + 1].v = hw[t][n + 3].v
                   /\ hw[t][n].v <= hw[t][n + 3].v
                   /\ hw[t][n + 2].v = SumObserved(hsnap[t], MaxHistVal)

\* A rendering has returned that another caller's Update had to wait for,
\* and it counts a value above every bound.
C12_Witness ==
    \E t \in Threads, u \in Threads :
        /\ Rendered(t)
        /\ hw[t] # <<>>
        /\ hw[t][Len(HistBounds)].v < hw[t][Len(HistBounds) + 3].v
        /\ hpc[u] = "Update_lock"
        /\ hist[1].count = hw[t][Len(HistBounds) + 3].v

\* The step is the start of an Update of t with NaN or a negative value.
RejectedUpdate(t) ==
    /\ hcalls' = hcalls + 1
    /\ hop'[t].call = "Update"
    /\ hop'[t].nan \/ hop'[t].v < 0
    /\ hpc[t] = "idle"

\* An unmerged histogram renders, for each bound, the number of accepted
\* values at most the bound, a non-decreasing count, and the number of
\* accepted values on the le="+Inf" and the _count line.
RendersCumulative(t) ==
    (Rendered(t) /\ ~hsnap[t].merged) =>
        /\ RendersObservations(hw[t], HistBounds, hsnap[t])
        /\ \A i \in 1..(Len(hw[t]) - 3), j \in 1..(Len(hw[t]) - 3) :
               i <= j => hw[t][i].v <= hw[t][j].v

\* C13: after any sequence of Update calls the le="b" line holds the number
\* of accepted values (neither NaN nor negative) that are at most b, the
\* le="+Inf" and _count lines hold the number of accepted values, the
\* counts do not decrease along the bounds, and an Update with NaN or a
\* negative value changes nothing.
C13_CumulativeCounts ==
    [][/\ \A t \in Threads : RejectedUpdate(t) => hist' = hist
       /\ \A t \in Threads : RendersCumulative(t)']_vars

\* A rendering after a value on a bound, a value above the bounds and a
\* rejected value.
C13_Witness ==
    \E t \in Threads :
        /\ Rendered(t)
        /\ ~hsnap[t].merged
        /\ Len(hw[t]) = Len(HistBounds) + 3
        /\ hw[t][1].v = 1
        /\ hw[t][2].v = 1
        /\ hw[t][3].v = 2
        /\ hsnap[t].vals[HistBounds[1]] = 1

\* C14: after h.Merge(src) each cumulative bucket count, the sum and the
\* count of h are the sums of those of h before the call and of src.
C14_MergeAdds ==
    \A t \in Threads :
        (hpc[t] = "idle" /\ hop[t].call = "Merge") =>
            LET h == hist[hop[t].h]
                before == hsnap[t].h
                src == hsnap[t].src
            IN
            /\ h.sum = before.sum + src.sum
            /\ h.count = before.count + src.count
            /\ \A i \in 1..Len(h.buckets) :
                   h.buckets[i] = before.buckets[i] + src.buckets[i]


\* ------------------------------------------------------ scrape: properties

\* C15: in the output of WritePrometheus a histogram or a summary that
\* holds no observation has no line (neither its own entry nor the entries
\* of its quantiles write one), and every counter and gauge has exactly one
\* line.
C15_EmptyWritesNothing ==
    \A t \in Threads :
        \A i \in 1..Len(wl[t]) :
            LET e == wl[t][i] IN
            /\ e.kind \in {"Counter", "Gauge"} => e.n = 1
            /\ (e.kind \in {"Histogram", "Summary", "quantileValue"}
                    /\ e.empty) => e.n = 0

\* The entry i of the pass is the first that writes lines under its base
\* name.
FirstOfFamily(w, i) ==
    /\ w[i].n > 0
    /\ \A j \in 1..(i - 1) :
          w[j].n > 0 => getMetricFamily(w[j].name) # getMetricFamily(w[i].name)

C16_PanicLeavesSetUsable ==
    \A t \in Threads :
        (Idle(t, "WritePrometheus") /\ ret[t] = RetPanic) =>
            /\ mu # t
            /\ Len(wl[t]) = Len(snap[t]) - 1


\* ----------------------------------------------------- Counter: properties

\* C18: with callers that only call Inc and Get, no increment is lost (the
\* value is the number of Inc calls made) and the value a caller gets is
\* never less than the value it got before.
C18_NoLostIncrement ==
    [][/\ cn' = incs'
       /\ \A t \in Threads : got'[t] >= got[t]]_vars

\* Both callers have incremented, and a caller has read the counter before
\* and after an increment of the other one.
C18_Witness ==
    /\ incs >= 2
    /\ \E t \in Threads : got[t] >= 1 /\ got[t] < cn

\* C19 as stated: the value a caller gets is the net effect of its calls,
\* taken as an integer.
C19_GetIsNetEffect ==
    \A t \in Threads : got[t] # -1 => got[t] = gotNet[t]

\* C19: Get() returns the net effect of the calls modulo 2^64, the range of
\* c.n: Dec and Add of a negative number below zero, and Inc and Add above
\* 2^64 - 1, wrap around.
C19_GetIsNetEffectWrapped ==
    /\ cn = uint64(net)
    /\ \A t \in Threads : got[t] # -1 => got[t] = uint64(gotNet[t])

\* Get() after Dec on a fresh counter.
C19_Witness ==
    \E t \in Threads : gotNet[t] = -1 /\ got[t] = CounterModulus - 1


\* -------------------------------------------------------- push: properties

\* The push tasks of the target u that have been started and not closed.
Running(u) == {i \in 1..nTasks : task[i].url = u /\ ~task[i].closed}

\* C20: whatever calls of InitPush* run at once, a target never has more
\* than one running push task (and ticker), and a running task is the one
\* pushUrlChanMap holds for its target, so that Close can stop it.
C20_OneTaskPerURL ==
    \A u \in URLs :
        /\ Cardinality(Running(u)) <= 1
        /\ \A i \in Running(u) :
               pushUrlChanMap[u] = i
                   \/ \E c \in Threads : cl[c].cur = i /\ cl[c].pc # "idle"

\* C21: when InitPushExt is called again for a pushURL with another
\* writeMetrics callback and returns nil, a running push task of that URL
\* calls the callback, so that what it writes is pushed.
C21_EveryCallbackPushed ==
    [][\A c \in Threads, s \in PushSets \cup {0}, u \in URLs,
          f \in cfg.callbacks :
            InitPushExt(c, s, u, f, TRUE) /\ cl'[c].ret = "nil"
                => \E i \in Running(u)' : task'[i].cb = f]_vars

\* The caller's call of Close or Set.Close has returned nil.
Closed(c) ==
    /\ cl[c].call \in {"Close", "SetClose"}
    /\ cl[c].pc = "idle"
    /\ cl[c].ret = "nil"

\* The caller takes a step of Set.Close.
SetCloseStep(c) ==
    \/ \E s \in PushSets : SetClose(c, s)
    \/ SetClose_add(c)
    \/ SetClose_close(c)
    \/ cl[c].call = "SetClose" /\ Close_wait(c)

\* C22: once Close() or Set.Close() has returned, the push goroutine of
\* every task it closed has ended (it sends no further request) and
\* pushUrlChanMap no longer holds the task; a step of Set.Close changes
\* neither the entry of another URL nor a task of another URL; and the
\* ticker of a closed channel is never inside a send on it.
C22_CloseStopsTheTask ==
    [][/\ \A c \in Threads : Closed(c)' =>
              \A i \in cl'[c].closed :
                  /\ task'[i].pc = "done"
                  /\ pushUrlChanMap'[task'[i].url] # i
       /\ \A c \in Threads : SetCloseStep(c) =>
              /\ \A u \in URLs \ {cl'[c].key} :
                     pushUrlChanMap'[u] = pushUrlChanMap[u]
              /\ \A i \in TaskIds :
                     task[i].url # cl'[c].key => task'[i] = task[i]
       /\ \A i \in TaskIds :
              task'[i].closed => task'[i].timer # "sending"]_vars

\* Set.Close has returned for one URL, the ticker of the task it closed
\* has ticked since and has been stopped, and the task of another URL is
\* still registered and running.
C22_Witness ==
    \E c \in Threads, i, j \in TaskIds :
        /\ Closed(c)
        /\ cl[c].call = "SetClose"
        /\ i \in cl[c].closed
        /\ task[i].timer = "stopped"
        /\ task[j].url \notin {0, task[i].url}
        /\ ~task[j].closed
        /\ pushUrlChanMap[task[j].url] = j

\* C23: a call of InitPush* whose interval, extraLabels or pushURL fails
\* the checks returns an error, starts no task and no ticker, and leaves
\* pushUrlChanMap as it was, the entry of the same URL included.
C23_FailedInitPushChangesNothing ==
    [][\A c \in Threads, s \in PushSets \cup {0}, u \in URLs,
          f \in cfg.callbacks :
            InitPushExt(c, s, u, f, FALSE) =>
                /\ cl'[c].ret = "error"
                /\ nTasks' = nTasks
                /\ task' = task
                /\ pushUrlChanMap' = pushUrlChanMap]_vars

\* C24: a push that fails, by a failed request or by a response that is
\* not 2xx, adds exactly one to the error counter of its URL and a push
\* that succeeds adds nothing; a failed push that a tick had triggered
\* leaves the push goroutine waiting for the next tick and does not
\* touch the ticker or the channel; every attempt adds one to the push counter; and the error
\* counter never exceeds the push counter.
C24_FailedPushCountedOnce ==
    [][/\ \A i \in TaskIds, answer \in Answers : Push_do(i, answer) =>
              LET u == task[i].url IN
              /\ pushErrorsTotal'[u] = pushErrorsTotal[u]
                     + (IF answer = "ok" THEN 0 ELSE 1)
              /\ answer # "ok" /\ task[i].ok =>
                     /\ task'[i].pc = "select"
                     /\ task'[i].timer = task[i].timer
                     /\ task'[i].closed = task[i].closed
       /\ \A i \in TaskIds : Push_writeMetrics(i) =>
              pushesTotal'[task[i].url] = pushesTotal[task[i].url] + 1
       /\ \A u \in URLs : pushErrorsTotal'[u] <= pushesTotal'[u]]_vars

\* A push has failed, and the next tick has triggered a further attempt.
C24_Witness ==
    \E u \in URLs :
        /\ pushErrorsTotal[u] = 1
        /\ pushesTotal[u] = 2
        /\ \E i \in TaskIds : task[i].url = u /\ task[i].pc = "do"
                                /\ task[i].ok

\* ---------------------------------------------------- Histogram: properties

\* x <= y and x < y for values that are not NaN.
VmLeq(x, y) == y.inf \/ (~x.inf /\ x.v <= y.v)
VmLess(x, y) == ~x.inf /\ (y.inf \/ x.v < y.v)

\* C28: the bucket index of every v >= 0 is below bucketsCount, and v lies
\* in the range of its bucket: above the range end of the bucket before
\* and at most its own range end.  Zero has the zero bucket to itself; a
\* value on a boundary goes to the lower bucket; what lies below the
\* minimum decade is in the first bucket, and +Inf and what lies above
\* 10^(e10Max+1) in the last.
C28_BucketContainsValue ==
    bk.idx # -1 =>
        /\ bk.idx \in 0..(bucketsCount - 1)
        /\ bk.idx = 0 <=> bk.x = VmVal(0)
        /\ VmLeq(bk.x, getRangeEndFromBucketIdx(bk.idx))
        /\ bk.idx > 0 =>
               VmLess(getRangeEndFromBucketIdx(bk.idx - 1), bk.x)
        /\ bk.x = VmInf => bk.idx = bucketsCount - 1

\* A value on the boundary of two buckets of the decade e10Max has been
\* given its bucket.
C28_Witness ==
    /\ bk.x = VmVal(2 * Pow10(e10Max - e10Min + 1))
    /\ bk.idx = 2 + 9 * (e10Max - e10Min)

\* The caller's marshalTo has returned.
VmRendered(t) == vp[t].call = "marshalTo" /\ vp[t].pc = "idle"

RECURSIVE SumSeq(_)
SumSeq(q) == IF q = <<>> THEN 0 ELSE Head(q) + SumSeq(Tail(q))

\* The numbers of the lines of one kind.
LineNumbers(lines, kind) ==
    LET RECURSIVE Pick(_)
        Pick(q) == IF q = <<>> THEN <<>>
                   ELSE IF Head(q).line = kind
                   THEN <<Head(q).n>> \o Pick(Tail(q))
                   ELSE Pick(Tail(q))
    IN Pick(lines)

\* C25: Update(v) with a negative v or with NaN returns normally and
\* changes no bucket, nor _sum, nor _count.
C25_RejectedUpdateIsNoOp ==
    [][\A t \in Threads :
          Histogram_Update(t) /\ (vp'[t].x.nan \/ vp'[t].x.v < 0)
              => vp'[t].ret = "ok" /\ vh' = vh]_vars

\* C26: a rendering made when every Update that had started had finished
\* has a _count of the number of accepted updates, equal to the sum of the
\* counts of its bucket lines, and a _sum of the sum of the accepted
\* values; with no accepted update it has no line.
C26_CountsMatchUpdates ==
    \A t \in Threads : VmRendered(t) /\ vp[t].quiet =>
        LET lines == vp[t].lines
            accepted == vp[t].read.accepted
        IN IF accepted = <<>> THEN lines = <<>>
           ELSE /\ LineNumbers(lines, "count") = <<Len(accepted)>>
                /\ SumSeq(LineNumbers(lines, "bucket")) = Len(accepted)
                /\ LineNumbers(lines, "sum") = <<SumSeq(accepted)>>

\* Three values have been put into two buckets by callers that run at
\* once, and a rendering has followed.
C26_Witness ==
    \E t \in Threads :
        /\ VmRendered(t)
        /\ vp[t].quiet
        /\ Len(vp[t].read.accepted) = 3
        /\ Len(vp[t].lines) = 4

\* C27: what a rendering has read of the buckets, of _sum and of _count
\* has been cleared by the same Resets: it is the state before a Reset or
\* the state after it, never a part of each.
C27_ResetIsAllOrNothing ==
    \A t \in Threads : VmRendered(t) =>
        \A i, j \in 1..3 : vp[t].read.cleared[i] = vp[t].read.cleared[j]

\* A rendering has shown the value that an Update added after a Reset,
\* and the next Reset is waiting for the lock.
C27_Witness ==
    \E t, u \in Threads :
        /\ VmRendered(t)
        /\ vp[t].read.cleared = <<1, 1, 1>>
        /\ vp[t].read.count = 1
        /\ vp[u].pc = "Reset_lock"

\* The caller has marshalled the histogram h and returned.
Marshalled(t, h) ==
    /\ hpc[t] = "idle"
    /\ hop[t].call = "marshalTo"
    /\ hop[t].h = h

\* The histogram built from the bounds and the one built from the bounds
\* followed by +Inf are both there or both not, and two renderings of them
\* that were taken after the same observations are the same lines.
SameConstructionAndOutput ==
    /\ hist[1].built = hist[2].built
    /\ \A t, u \in Threads :
          Marshalled(t, 1) /\ Marshalled(u, 2) /\ hsnap[t] = hsnap[u]
              => hw[t] = hw[u]

\* C30 as stated: for any list of bounds B, a histogram built from B
\* followed by a trailing +Inf behaves exactly like one built from B
\* alone: construction accepts or panics alike, and after any sequence of
\* updates both render the same output.
C30_TrailingInfIsRedundant == SameConstructionAndOutput

\* C30, amended: the same for every list of bounds B that is not empty and
\* does not itself end in +Inf.
C30_TrailingInfIsRedundantForFiniteEnd ==
    LET B == hist[1].given IN
    (Len(B) > 0 /\ B[Len(B)] # PosInf) => SameConstructionAndOutput

\* Both histograms were built from increasing finite bounds, the same
\* value was put into each, and each was marshalled after that, to lines.
C30_Witness ==
    \E t, u \in Threads :
        /\ hist[1].given = <<1, 2>>
        /\ hist[2].given = <<1, 2, PosInf>>
        /\ hist[1].built /\ hist[2].built
        /\ Marshalled(t, 1) /\ Marshalled(u, 2)
        /\ hsnap[t] = hsnap[u]
        /\ hsnap[t].vals[1] = 1
        /\ Len(hw[t]) = 5

\* C37: no call of Close() or Set.Close() panics, however the calls
\* overlap: each push signal channel is closed once, never a second time.
C37_NoCloseOfClosedChannel ==
    \A c \in Threads :
        cl[c].call \in {"Close", "SetClose"} => cl[c].ret # "panic"

\* --------------------------------------------------- names: properties

\* C32: for a valid name, bare, with labels or with an empty brace group,
\* and a valid label, addTag returns a valid name: the base and one brace
\* group that holds the labels of the name followed by the new label, with
\* a comma only between two labels.
C32_AddTagAppendsLabel ==
    (txt.call = "addTag" /\ txt.done) =>
        /\ txt.res = NameText(NameParts(txt.name.base, TRUE,
                                        Append(txt.name.labels, txt.tag)))
        /\ IsMetricName(txt.res)

\* The string is a MetricName in which spaces may follow the comma between
\* two labels.
IsSpacedMetricName(b) == MetricNameRun("start", b, TRUE) \in {"base", "end"}

WithExtraLabels(l, extraLabels) ==
    l.name.base \o <<"{">> \o extraLabels
    \o (IF l.name.braces THEN <<",">> \o JoinLabels(l.name.labels) ELSE <<>>)
    \o <<"}", " ">> \o Value
    \o (IF l.timestamp THEN <<" ">> \o Timestamp ELSE <<>>)

RECURSIVE Relabelled(_, _)
\* The lines in their order: none for a blank line, the comment as it is,
\* the sample with the labels in front of its labels.
Relabelled(lines, extraLabels) ==
    IF lines = <<>> THEN <<>>
    ELSE (CASE Head(lines).kind = "blank" -> <<>>
            [] Head(lines).kind = "comment" -> Head(lines).comment \o <<"\n">>
            [] Head(lines).kind = "sample" ->
                  WithExtraLabels(Head(lines), extraLabels) \o <<"\n">>)
         \o Relabelled(Tail(lines), extraLabels)

C39_ListIsMap ==
    mu = 0 =>
        /\ \A i, j \in 1..Len(a) : a[i].name = a[j].name => i = j
        /\ \A i \in 1..Len(a) : m[a[i].name] = a[i]
        /\ \A n \in Names : m[n] # NilNM => \E i \in 1..Len(a) : a[i] = m[n]

\* A name has been unregistered and registered again while another name
\* stayed registered: the list holds both, and the lock is free.
C39_Witness ==
    /\ mu = 0
    /\ unregs > 0
    /\ Len(a) >= 2
    /\ \E t \in Threads : removed[t] # NilNM /\ m[removed[t].name] # NilNM

\* C35: whenever s.mu is free, a summary is registered under a name exactly
\* when all of its quantile sub-metrics are registered: every summary in
\* s.m has each of its quantile values in s.m under the name with the
\* quantile label, and every quantile value in s.m belongs to a summary
\* that is in s.m.
C35_SummaryWithItsQuantiles ==
    mu = 0 =>
        /\ \A n \in Names :
              m[n].metric.kind = "Summary" =>
                  \A i \in 1..Len(m[n].metric.quantiles) :
                      LET q == m[quantileNames(m[n])[i]].metric IN
                      /\ q.kind = "quantileValue"
                      /\ q.sm = m[n].metric.id
                      /\ q.idx = i
        /\ \A n \in Names :
              m[n].metric.kind = "quantileValue" =>
                  \E k \in Names : /\ m[k].metric.kind = "Summary"
                                   /\ m[k].metric.id = m[n].metric.sm

\* C36: a New* or GetOrCreate* call that has panicked has left s.m, s.a,
\* s.summaries and the registry of the swap tasks as it found them: a
\* summary whose name is taken, or whose quantile name is taken or not
\* valid, leaves nothing of itself behind.
C36_PanicChangesNothing ==
    \A t \in cfg.threads :
        (/\ pc[t] = "idle"
         /\ ret[t] = RetPanic
         /\ op[t].call \in {"New", "GetOrCreate"})
            => Registry = atStart[t]

\* The ids of the summaries that are registered in s.m under some name.
RegisteredSummaries ==
    {m[n].metric.id : n \in {k \in Names : m[k].metric.kind = "Summary"}}

\* C40: s.summaries holds only summaries that are registered in s.m, each
\* once: a GetOrCreateSummaryExt caller that finds the name taken at its
\* second look-up adds nothing to the list.
C40_SummariesAreRegistered ==
    /\ \A i, j \in 1..Len(summaries) : summaries[i] = summaries[j] => i = j
    /\ \A i \in 1..Len(summaries) : summaries[i] \in RegisteredSummaries

\* -------------------------------------------------------- Gauge: properties

\* The call of the caller ends in a panic and leaves the registry as it is.
PanicsAndRegistersNothing(t) ==
    /\ pc'[t] = "idle"
    /\ ret'[t] = RetPanic
    /\ m' = m
    /\ a' = a

C38_EveryHistCallCompletes ==
    \A t \in Threads : (hpc[t] # "idle") ~> (hpc[t] = "idle")

\* ----------------------------------------------------- mutexes: properties

\* C17: under fair scheduling every WritePrometheus call, every
\* registration of a summary, every Summary.Update and every round of the
\* swap task that has started completes: no goroutine waits for a mutex
\* for ever.
C17_EveryCallCompletes ==
    \A p \in LockProcs : (proc[p].pc # "idle") ~> (proc[p].pc = "idle")

\* The pass holds s.mu and waits for the mu of a summary that Update
\* holds, the swap task holds summariesLock and waits for the same mu, and
\* the registration waits for s.mu.
C17_Witness ==
    /\ locks[<<"s.mu", 0>>] = "WritePrometheus"
    /\ locks[<<"summariesLock", 0>>] = "summariesSwapCron"
    /\ \E s \in 1..MaxLockSummaries :
          /\ locks[<<"sm.mu", s>>] = "Update"
          /\ proc["WritePrometheus"].pc \in {"wp_updateQuantiles",
                                             "wp_marshalTo"}
          /\ proc["summariesSwapCron"].pc = "cron_swap"
          /\ swapReg[defaultSummaryWindow][proc["summariesSwapCron"].i] = s
    /\ proc["GetOrCreateSummaryExt"].pc \in {"goc_lookup", "goc_slow",
                                             "goc_quantiles"}

====
